---- MODULE Spec2Model ----
(***************************************************************************)
(* Model of the news collector (src/news_collection): the rule evaluator,  *)
(* the per-message pipeline (forward handling, duplicate check, persist,   *)
(* photo handling), the channel pass with its watermark, and the run over  *)
(* all channels.  The store is the PostgreSQL store of database.py.        *)
(*                                                                         *)
(* Python values: None is <<>>, a present value v is <<v>>; a text is a    *)
(* sequence of one-character strings; a datetime is a natural number.      *)
(***************************************************************************)
EXTENDS Integers, Sequences, FiniteSets, TLC

\* ------------------------------------------------------------------ bounds

\* posts the platform publishes over all channels
MaxPosts == 2

\* --------------------------------------------------------- python values

None == <<>>
Some(v) == <<v>>
IsNone(o) == o = <<>>
Val(o) == o[1]

Rep(ch, n) == [i \in 1..n |-> ch]

\* ------------------------------------------------------------ config.py

\* Config.START_DATE, the epoch default of a channel never fetched
START_DATE == 0
\* Config.MIN_TEXT_LENGTH
MIN_TEXT_LENGTH == 50

\* ------------------------------------------------------- str operations

\* str.lower() on the characters the model uses
LowerChar(c) ==
    CASE c = "A" -> "a"
      [] c = "B" -> "b"
      [] c = "D" -> "d"
      [] OTHER -> c

Lower(s) == [i \in 1..Len(s) |-> LowerChar(s[i])]

\* pattern in text
Contains(text, pattern) ==
    \E i \in 0..(Len(text) - Len(pattern)) :
        SubSeq(text, i + 1, i + Len(pattern)) = pattern

\* str(file_id)
Str(n) == <<"str", n>>

\* ------------------------------------------------------ float operations

\* a Python float is a binary64: 53 significant bits
Precision == 53

\* a natural number as bits, most significant first, and back
RECURSIVE NatToBits(_)
NatToBits(n) == IF n = 0 THEN <<>> ELSE Append(NatToBits(n \div 2), n % 2)

RECURSIVE BitsToNat(_)
BitsToNat(bits) ==
    IF bits = <<>> THEN 0
    ELSE 2 * BitsToNat(SubSeq(bits, 1, Len(bits) - 1)) + bits[Len(bits)]

RECURSIVE IncBits(_)
IncBits(bits) ==
    IF bits = <<>> THEN <<1>>
    ELSE IF bits[Len(bits)] = 0
    THEN Append(SubSeq(bits, 1, Len(bits) - 1), 1)
    ELSE Append(IncBits(SubSeq(bits, 1, Len(bits) - 1)), 0)

\* the first n bits of bits, rounded to nearest, ties to even
RoundBits(bits, n) ==
    IF Len(bits) <= n THEN bits
    ELSE LET kept == SubSeq(bits, 1, n)
             half == bits[n + 1] = 1
             sticky == \E i \in (n + 2)..Len(bits) : bits[i] = 1
         IN  IF half /\ (sticky \/ kept[n] = 1) THEN IncBits(kept) ELSE kept

\* a float is BitsToNat(bits) * 2^exp
Float(bits, exp) == [bits |-> bits, exp |-> exp]

\* the least e with num * 2^e >= den
RECURSIVE ShiftOf(_, _)
ShiftOf(num, den) == IF num >= den THEN 0 ELSE 1 + ShiftOf(2 * num, den)

\* long division: the next n bits of r / den for r < den, and what is left
RECURSIVE DivBits(_, _, _)
DivBits(r, den, n) ==
    IF n = 0 THEN <<>>
    ELSE IF 2 * r >= den THEN <<1>> \o DivBits(2 * r - den, den, n - 1)
    ELSE <<0>> \o DivBits(2 * r, den, n - 1)

RECURSIVE DivRest(_, _, _)
DivRest(r, den, n) ==
    IF n = 0 THEN r
    ELSE IF 2 * r >= den THEN DivRest(2 * r - den, den, n - 1)
    ELSE DivRest(2 * r, den, n - 1)

RECURSIVE Pow2(_)
Pow2(n) == IF n = 0 THEN 1 ELSE 2 * Pow2(n - 1)

\* num / den for integers 0 < num < den: true division, correctly rounded
FloatDiv(num, den) ==
    LET e == ShiftOf(num, den)
        r == num * Pow2(e) - den
        quotient == <<1>> \o DivBits(r, den, Precision)
        sticky == IF DivRest(r, den, Precision) = 0 THEN 0 ELSE 1
    IN  Float(RoundBits(Append(quotient, sticky), Precision), 0 - (Precision - 1) - e)

\* the k-bit form of v < 2^k
PadBits(v, k) == [i \in 1..k |-> (v \div Pow2(k - i)) % 2]

\* bits times a small integer, eleven bits at a time from the least
\* significant end
RECURSIVE MulBits(_, _, _)
MulBits(bits, n, carry) ==
    IF bits = <<>> THEN NatToBits(carry)
    ELSE LET k == IF Len(bits) < 11 THEN Len(bits) ELSE 11
             t == BitsToNat(SubSeq(bits, Len(bits) - k + 1, Len(bits))) * n + carry
         IN  MulBits(SubSeq(bits, 1, Len(bits) - k), n, t \div Pow2(k))
                \o PadBits(t % Pow2(k), k)

\* int * float: the integer converts exactly, the product is rounded
FloatMulInt(n, x) ==
    LET product == MulBits(x.bits, n, 0)
        dropped == IF Len(product) > Precision THEN Len(product) - Precision ELSE 0
    IN  Float(RoundBits(product, Precision), x.exp + dropped)

\* int(x) for x >= 0: truncation
FloatTrunc(x) ==
    IF x.exp >= 0 THEN BitsToNat(x.bits) * Pow2(x.exp)
    ELSE IF Len(x.bits) + x.exp <= 0 THEN 0
    ELSE BitsToNat(SubSeq(x.bits, 1, Len(x.bits) + x.exp))

\* ---------------------------------------------- database.py: exclusion

\* a slip: the pattern is compared as stored, only the text is lower-cased
RuleMatches_pattern_as_stored(message_text, rule) ==
    LET text_to_check == IF rule.is_case_sensitive THEN message_text ELSE Lower(message_text)
        pattern_to_check == rule.pattern
    IN  IF rule.rule_type = "exact" THEN text_to_check = pattern_to_check
        ELSE IF rule.rule_type = "contains" THEN Contains(text_to_check, pattern_to_check)
        ELSE FALSE

RuleMatches(message_text, rule) ==
    LET text_to_check == IF rule.is_case_sensitive THEN message_text ELSE Lower(message_text)
        pattern_to_check == IF rule.is_case_sensitive THEN rule.pattern ELSE Lower(rule.pattern)
    IN  IF rule.rule_type = "exact" THEN text_to_check = pattern_to_check
        ELSE IF rule.rule_type = "contains" THEN Contains(text_to_check, pattern_to_check)
        ELSE FALSE

RECURSIVE should_exclude_from(_, _, _)
should_exclude_from(message_text, rules, i) ==
    IF i > Len(rules) THEN FALSE
    ELSE IF RuleMatches(message_text, rules[i]) THEN TRUE
    ELSE should_exclude_from(message_text, rules, i + 1)

should_exclude_message(message_text, rules) == should_exclude_from(message_text, rules, 1)

\* database_sqlite.py: the same loop behind `if not message_text or not rules`
should_exclude_message_sqlite(message_text, rules) ==
    IF message_text = <<>> \/ rules = <<>> THEN FALSE
    ELSE should_exclude_from(message_text, rules, 1)

\* --------------------------------------------- collector.py: classification

has_photo(message) == message.media = "photo"

\* a slip: a text of exactly the minimum length counts as too short
TooShort_le(text_length) == text_length <= MIN_TEXT_LENGTH

\* text_length < MIN_TEXT_LENGTH
TooShort(text_length) == text_length < MIN_TEXT_LENGTH

\* a slip: Config.SKIP_FORWARDED is honoured, a forward is dropped
should_collect_message_skip_forwarded(message, rules) ==
    LET message_has_photo == has_photo(message)
        message_text == message.text
        text_length == Len(message_text)
    IN  IF ~IsNone(message.fwd_from)
        THEN [collect |-> FALSE, reason |-> "forwarded"]
        ELSE IF message_text # <<>> /\ should_exclude_message(message_text, rules)
        THEN [collect |-> FALSE, reason |-> "matched exclusion rule"]
        ELSE IF message_has_photo
        THEN [collect |-> TRUE, reason |-> "has photo"]
        ELSE IF text_length < MIN_TEXT_LENGTH
        THEN [collect |-> FALSE, reason |-> "text too short"]
        ELSE [collect |-> TRUE, reason |-> "sufficient text"]

\* a slip: the photo rule is evaluated before the exclusion rules
should_collect_message_photo_first(message, rules) ==
    LET message_has_photo == has_photo(message)
        message_text == message.text
        text_length == Len(message_text)
    IN  IF message_has_photo
        THEN [collect |-> TRUE, reason |-> "has photo"]
        ELSE IF message_text # <<>> /\ should_exclude_message(message_text, rules)
        THEN [collect |-> FALSE, reason |-> "matched exclusion rule"]
        ELSE IF text_length < MIN_TEXT_LENGTH
        THEN [collect |-> FALSE, reason |-> "text too short"]
        ELSE [collect |-> TRUE, reason |-> "sufficient text"]

\* a slip: non-photo media is collected whatever the length of its text
should_collect_message_media_always(message, rules) ==
    LET message_has_photo == has_photo(message)
        message_text == message.text
        text_length == Len(message_text)
    IN  IF message_text # <<>> /\ should_exclude_message(message_text, rules)
        THEN [collect |-> FALSE, reason |-> "matched exclusion rule"]
        ELSE IF message_has_photo
        THEN [collect |-> TRUE, reason |-> "has photo"]
        ELSE IF message.media # "none" /\ ~message_has_photo
        THEN [collect |-> TRUE, reason |-> "has media with sufficient text"]
        ELSE IF TooShort(text_length)
        THEN [collect |-> FALSE, reason |-> "text too short"]
        ELSE [collect |-> TRUE, reason |-> "text message with sufficient length"]

should_collect_message(message, rules) ==
    LET message_has_photo == has_photo(message)
        message_text == message.text
        text_length == Len(message_text)
    IN  IF message_text # <<>> /\ should_exclude_message(message_text, rules)
        THEN [collect |-> FALSE, reason |-> "matched exclusion rule"]
        ELSE IF message_has_photo
        THEN [collect |-> TRUE, reason |-> "has photo"]
        ELSE IF message.media # "none" /\ ~message_has_photo
        THEN IF TooShort(text_length)
             THEN [collect |-> FALSE, reason |-> "has media but text too short"]
             ELSE [collect |-> TRUE, reason |-> "has media with sufficient text"]
        ELSE IF TooShort(text_length)
        THEN [collect |-> FALSE, reason |-> "text too short"]
        ELSE [collect |-> TRUE, reason |-> "text message with sufficient length"]

\* ------------------------------------------------ database.py: messages

\* md5 of the text: equal texts give equal digests, and no two texts of the
\* model collide
calculate_text_hash(text) == <<"md5", text>>

\* the rows SELECT ... WHERE text_hash = $1 AND is_duplicate = 0 matches;
\* LIMIT 1 without ORDER BY returns any one of them
\* a slip: the WHERE clause lost its text_hash condition
DuplicateFilter_any_original(row, text_hash) == row.is_duplicate = 0

DuplicateFilter(row, text_hash) ==
    row.text_hash = Some(text_hash) /\ row.is_duplicate = 0

find_duplicate(msgs, text_hash) ==
    { <<msgs[i].channel_id, msgs[i].message_id>> :
        i \in { j \in 1..Len(msgs) : DuplicateFilter(msgs[j], text_hash) } }

MessageExists(msgs, channel_id, message_id) ==
    \E i \in 1..Len(msgs) :
        msgs[i].channel_id = channel_id /\ msgs[i].message_id = message_id

\* a slip: the insert fails and the store layer only logs it
insert_message_swallowed(msgs, row) == msgs

\* a slip: ON CONFLICT ... DO UPDATE, the row of a post seen again is rewritten
insert_message_upsert(msgs, row) ==
    IF MessageExists(msgs, row.channel_id, row.message_id)
    THEN [i \in 1..Len(msgs) |->
            IF msgs[i].channel_id = row.channel_id /\ msgs[i].message_id = row.message_id
            THEN row ELSE msgs[i]]
    ELSE Append(msgs, row)

\* a slip: the insert has no conflict clause
insert_message_no_conflict(msgs, row) == Append(msgs, row)

\* INSERT ... ON CONFLICT (channel_id, message_id) DO NOTHING
insert_message(msgs, row) ==
    IF MessageExists(msgs, row.channel_id, row.message_id) THEN msgs
    ELSE Append(msgs, row)

\* -------------------------------------------------- database.py: images

image_exists(imgs, file_id) == \E r \in imgs : r.file_id = file_id

\* INSERT ... ON CONFLICT (file_id) DO NOTHING
insert_image(imgs, row) ==
    IF image_exists(imgs, row.file_id) THEN imgs ELSE imgs \cup {row}

\* --------------------------------------------------- image_handler_old.py

\* Config.MAX_IMAGE_WIDTH
MAX_IMAGE_WIDTH == 1280

\* Config.KEEP_WEBP
KEEP_WEBP == TRUE

\* get_file_path(...) relative to the base directory: date / channel / file.ext
get_file_path(message_datetime, channel_name, file_id, extension) ==
    <<message_datetime, channel_name, file_id, extension>>

\* The body of download_and_compress_photo once the bytes are there.
\* outcome is what the platform and Pillow do: "ok", "no_bytes" (download_media
\* returns nothing), "error" (download, decode or encode raises inside the try).
CompressResult(message, channel_name, file_id) ==
    LET photo == Val(message.photo)
        keep == photo.format = "webp" /\ KEEP_WEBP
        extension == IF keep THEN "webp" ELSE "jpg"
        resize == photo.width > MAX_IMAGE_WIDTH
        ratio == FloatDiv(MAX_IMAGE_WIDTH, photo.width)
        new_height == FloatTrunc(FloatMulInt(photo.height, ratio))
    IN  IF resize /\ new_height < 1 THEN None
        ELSE Some([file_path |-> get_file_path(message.date, channel_name, file_id, extension),
                   width |-> IF resize THEN MAX_IMAGE_WIDTH ELSE photo.width,
                   height |-> IF resize THEN new_height ELSE photo.height])

\* a slip: an exception of the download or of Pillow leaves the function
download_and_compress_photo_raises(message, channel_name, file_id, outcome) ==
    IF outcome = "ok"
    THEN [raised |-> FALSE, value |-> CompressResult(message, channel_name, file_id)]
    ELSE IF outcome = "error" THEN [raised |-> TRUE, value |-> None]
    ELSE [raised |-> FALSE, value |-> None]

\* try: ... except Exception: return None
download_and_compress_photo(message, channel_name, file_id, outcome) ==
    IF outcome = "ok"
    THEN [raised |-> FALSE, value |-> CompressResult(message, channel_name, file_id)]
    ELSE [raised |-> FALSE, value |-> None]

\* ------------------------------------------- collector.py: process_message

\* a slip: the existence check does not stop the download
SkipIfExists_never(imgs, file_id) == FALSE

\* if await self.db.image_exists(str(file_id)): return
SkipIfExists(imgs, file_id) == image_exists(imgs, file_id)

\* the row process_single_photo passes to insert_image
ImageRow(message, channel_id, image_data) ==
    [message_channel_id |-> channel_id,
     message_message_id |-> message.id,
     file_id |-> Str(Val(message.photo).id),
     file_path |-> image_data.file_path,
     width |-> image_data.width,
     height |-> image_data.height]

\* forward_from_channel_id: from_id when it is a PeerChannel
ForwardChannel(fwd) ==
    IF ~IsNone(fwd.from_id) /\ Val(fwd.from_id).peer = "PeerChannel"
    THEN Some(Val(fwd.from_id).id) ELSE None

\* forward_from_message_id: channel_post when present and not 0
ForwardPost(fwd) ==
    IF ~IsNone(fwd.channel_post) /\ Val(fwd.channel_post) # 0
    THEN fwd.channel_post ELSE None

\* message_text after the forward branch: None for a forward
ForwardText(message, is_forwarded) ==
    IF is_forwarded THEN None ELSE Some(message.text)

\* a slip: the text is tested for None, not for being empty
ChecksDuplicate_any_text(is_forwarded, message_text) ==
    ~is_forwarded /\ ~IsNone(message_text)

\* if not is_forwarded and message_text
ChecksDuplicate(is_forwarded, message_text) ==
    ~is_forwarded /\ ~IsNone(message_text) /\ Val(message_text) # <<>>

\* a slip: the text of a duplicate is kept
StoredText_kept(message_text, is_duplicate) == message_text

\* message_text after the duplicate branch: None for a duplicate
StoredText(message_text, is_duplicate) ==
    IF is_duplicate THEN None ELSE message_text

\* a slip: the photo of a forward is fetched like any other
FetchesPhoto_forwards(message_has_photo, is_forwarded) == message_has_photo

\* if message_has_photo and not is_forwarded
FetchesPhoto(message_has_photo, is_forwarded) == message_has_photo /\ ~is_forwarded

\* grouped_id = message.grouped_id if message.grouped_id else None
GroupedId(message) ==
    IF ~IsNone(message.grouped_id) /\ Val(message.grouped_id) # 0
    THEN message.grouped_id ELSE None

\* message_data, the row process_message passes to insert_message; pick is
\* what find_duplicate returned
MessageData(message, channel_id, pick) ==
    LET message_has_photo == has_photo(message)
        is_forwarded == ~IsNone(message.fwd_from)
        text1 == ForwardText(message, is_forwarded)
        checks == ChecksDuplicate(is_forwarded, text1)
        text_hash == IF checks THEN Some(calculate_text_hash(Val(text1))) ELSE None
        is_duplicate == checks /\ ~IsNone(pick)
    IN  [channel_id |-> channel_id,
         message_id |-> message.id,
         message_text |-> StoredText(text1, is_duplicate),
         message_datetime |-> message.date,
         has_media |-> IF message_has_photo THEN 1 ELSE 0,
         is_duplicate |-> IF is_duplicate THEN 1 ELSE 0,
         is_forwarded |-> IF is_forwarded THEN 1 ELSE 0,
         duplicate_of |-> IF is_duplicate THEN pick ELSE None,
         forward_from_channel_id |->
             IF is_forwarded THEN ForwardChannel(Val(message.fwd_from)) ELSE None,
         forward_from_message_id |->
             IF is_forwarded THEN ForwardPost(Val(message.fwd_from)) ELSE None,
         text_hash |-> text_hash,
         grouped_id |-> GroupedId(message)]

\* ------------------------------------------------------------ the platform

TextA == Rep("a", MIN_TEXT_LENGTH)
TextLong == Rep("a", MIN_TEXT_LENGTH + 1)
TextShort == Rep("a", MIN_TEXT_LENGTH - 1)
TextAd == Rep("a", MIN_TEXT_LENGTH - 2) \o <<"A", "D">>
TextOne == <<"a">>

PhotoJpeg == [id |-> 11, format |-> "jpeg", width |-> 2560, height |-> 1441]

FwdChannel == [from_id |-> Some([peer |-> "PeerChannel", id |-> 900]), channel_post |-> Some(7)]
FwdUser == [from_id |-> Some([peer |-> "PeerUser", id |-> 500]), channel_post |-> None]

Kind(text, media, photo, fwd_from) ==
    [text |-> text, media |-> media, photo |-> photo, fwd_from |-> fwd_from,
     grouped_id |-> None]

\* what a channel publishes in the runs over growing channels
PostKinds ==
    { Kind(TextA, "none", None, None),
      Kind(TextShort, "none", None, None),
      Kind(TextA, "photo", Some(PhotoJpeg), None),
      Kind(TextA, "photo", Some(PhotoJpeg), Some(FwdChannel)) }

\* every shape of a single post: text length around the minimum, with and
\* without a rule match, each media type, forwarded or not
AnyKinds ==
    { Kind(text, media, IF media = "photo" THEN Some(PhotoJpeg) ELSE None, fwd_from) :
        text \in {<<>>, TextOne, TextShort, TextA, TextLong, TextAd},
        media \in {"none", "photo", "document"},
        fwd_from \in {None, Some(FwdChannel), Some(FwdUser)} }

\* photos of an album carry the grouped_id of the album; 0 is a grouped_id
\* that is not None and not truthy
AlbumKinds ==
    { [Kind(TextA, "photo", Some(PhotoJpeg), None) EXCEPT !.grouped_id = Some(g)] :
        g \in {0, 7} }

Post(kind, id, date) ==
    [id |-> id, date |-> date, text |-> kind.text, media |-> kind.media,
     photo |-> kind.photo, fwd_from |-> kind.fwd_from, grouped_id |-> kind.grouped_id]

\* the channels of the platform that can have a row in the channels table
ChannelTable == <<[id |-> 1, name |-> "c1"], [id |-> 2, name |-> "c2"]>>
ChannelIds == { ChannelTable[i].id : i \in 1..Len(ChannelTable) }

Rule(pattern, rule_type, is_case_sensitive) ==
    [pattern |-> pattern, rule_type |-> rule_type, is_case_sensitive |-> is_case_sensitive]

\* the active rows of exclusion_rules in the runs over growing channels
MainRules == <<Rule(<<"A", "d">>, "contains", FALSE)>>

\* the rule tables the single-post runs are checked under
AnyRules ==
    { <<>>,
      MainRules,
      <<Rule(<<"a", "d">>, "contains", TRUE)>>,
      <<Rule(TextA, "exact", FALSE), Rule(<<"A", "D">>, "contains", TRUE)>> }

\* what download_media and Pillow do with a photo
DownloadOutcomes == {"ok", "no_bytes", "error"}

\* --------------------------------------------------------------- the state

VARIABLES
    feed,             \* channel id -> the posts the platform holds, oldest first
    rule_rows,        \* the active rows of exclusion_rules, ORDER BY id
    last_fetched,     \* channels.last_fetched_datetime, by channel id
    messages,         \* the messages table, rows in insertion order
    images,           \* the images table
    exclusion_rules,  \* NewsCollector.exclusion_rules
    running,          \* a run() is in progress
    channels,         \* run(): the list get_all_channels returned
    idx,              \* run(): index of the channel the for loop is at
    pass,             \* process_channel(): its locals, None outside a pass
    failed_passes,    \* observation: channels whose pass raised in this run
    last,             \* observation: what the last step did
    snap,             \* observation: the store when a replay was set up
    lookups,          \* concurrent passes: channel id -> where its pass stands
    probe,            \* a direct call of a function: its arguments and result
    channel_rows,     \* the ids of the rows of the channels table
    turn,             \* process_message(): where the turn of the loop stands, None
                      \* between turns
    initialized       \* run(): initialize() has returned, the channels are not
                      \* listed yet

vars == <<feed, rule_rows, last_fetched, messages, images, exclusion_rules, running,
          channels, idx, pass, failed_passes, last, snap, lookups, probe, channel_rows, turn,
          initialized>>

\* values of channels.last_fetched_datetime
WmNull == [type |-> "NoneType", value |-> None]
WmDatetime(d) == [type |-> "datetime", value |-> Some(d)]
\* a string, as the SQLite store returns the column: value is its text.
\* The PostgreSQL store takes and returns datetime objects, and no operation
\* writes a string to it
WmStr(text) == [type |-> "str", value |-> text]

\* the text of a watermark: the ISO form of a timestamp; the empty string
isoformat(d) == <<"iso", d>>
EmptyText == <<>>

\* datetime.fromisoformat: raises ValueError on text that is no ISO timestamp
fromisoformat(text) ==
    IF Len(text) = 2 /\ text[1] = "iso"
    THEN [raised |-> FALSE, value |-> text[2]]
    ELSE [raised |-> TRUE, value |-> START_DATE]

Event(op, channel_id, message, calls, raised, data) ==
    [op |-> op, channel_id |-> channel_id, message |-> message, calls |-> calls,
     raised |-> raised, data |-> data]

NoEvent == Event("init", 0, None, <<>>, FALSE, None)

TotalPosts == LET RECURSIVE Sum(_)
                  Sum(i) == IF i > Len(ChannelTable) THEN 0
                            ELSE Len(feed[ChannelTable[i].id]) + Sum(i + 1)
              IN  Sum(1)

\* the collector before its first run, whatever the platform and the tables hold
Constructed ==
    /\ messages = <<>>
    /\ images = {}
    /\ exclusion_rules = <<>>
    /\ running = FALSE
    /\ channels = <<>>
    /\ idx = 1
    /\ pass = None
    /\ failed_passes = {}
    /\ last = NoEvent
    /\ snap = None
    /\ lookups = None
    /\ probe = None
    /\ turn = None
    /\ initialized = FALSE

Init ==
    /\ feed = [c \in ChannelIds |-> <<>>]
    /\ rule_rows = MainRules
    /\ last_fetched = [c \in ChannelIds |-> WmNull]
    /\ channel_rows = ChannelIds
    /\ Constructed

\* ----------------------------------------------------------- the platform

\* the timestamps the next post of a channel can carry: that of the newest
\* post or the next one (START_DATE + 1 for the first post)
NextDates(posts) ==
    IF posts = <<>> THEN {START_DATE + 1}
    ELSE {posts[Len(posts)].date, posts[Len(posts)].date + 1}

\* a channel publishes a post: ids grow, timestamps never go back
Publish(c) ==
    /\ TotalPosts < MaxPosts
    /\ \E kind \in PostKinds, date \in NextDates(feed[c]) :
        feed' = [feed EXCEPT ![c] = Append(@, Post(kind, Len(@) + 1, date))]
    /\ UNCHANGED <<rule_rows, last_fetched, messages, images, exclusion_rules, running,
                   channels, idx, pass, failed_passes, last, snap, lookups, probe, channel_rows, turn,
                   initialized>>

\* a slip: reverse=True is missing, the posts come newest first
Pending_newest_first(posts, offset_date, cursor) ==
    LET rest == { i \in 1..Len(posts) :
                    /\ posts[i].date > offset_date
                    /\ cursor = 0 \/ posts[i].id < cursor }
    IN  IF rest = {} THEN {}
        ELSE { CHOOSE i \in rest : \A j \in rest : j <= i }

\* iter_messages(channel, offset_date=offset_date, reverse=True): the posts it
\* still has to yield, oldest first: posts newer than offset_date, after the
\* last one yielded
Pending(posts, offset_date, cursor) ==
    { i \in 1..Len(posts) : posts[i].date > offset_date /\ posts[i].id > cursor }

Min(S) == CHOOSE x \in S : \A y \in S : x <= y
Max(S) == CHOOSE x \in S : \A y \in S : x >= y

\* the next post iter_messages yields
NextPost(posts, offset_date, cursor) == posts[Min(Pending(posts, offset_date, cursor))]

\* ------------------------------------------------ database.py: channels

ChannelName(c) == (CHOOSE row \in { ChannelTable[i] : i \in 1..Len(ChannelTable) } :
                       row.id = c).name

\* the orders a SELECT without ORDER BY can return the rows in
RowOrders(rows) ==
    { order \in [1..Cardinality(rows) -> rows] :
        \A i, j \in 1..Cardinality(rows) : order[i] = order[j] => i = j }

\* SELECT ... FROM channels: the lists it can return
get_all_channels(rows, watermarks) ==
    { [i \in 1..Len(order) |->
          [id |-> order[i], name |-> ChannelName(order[i]),
           last_fetched_datetime |-> watermarks[order[i]]]] :
        order \in RowOrders(rows) }

\* a slip: the UPDATE has no WHERE clause
update_channel_last_fetched_all(watermarks, channel_id, datetime_obj) ==
    [c \in DOMAIN watermarks |-> WmDatetime(datetime_obj)]

\* UPDATE channels SET last_fetched_datetime = $1 WHERE telegram_channel_id = $2
update_channel_last_fetched(watermarks, channel_id, datetime_obj) ==
    [watermarks EXCEPT ![channel_id] = WmDatetime(datetime_obj)]

\* ------------------------------------------- collector.py: process_channel

\* a slip: every pass starts from START_DATE, whatever the watermark
PrepareOffset_from_start(stored) == [raised |-> FALSE, value |-> START_DATE]

\* a slip: no isinstance test, a stored datetime goes through
\* datetime.fromisoformat, which raises TypeError
PrepareOffset_parses_all(stored) ==
    IF stored.type = "NoneType" \/ (stored.type = "str" /\ stored.value = EmptyText)
    THEN [raised |-> FALSE, value |-> START_DATE]
    ELSE IF stored.type = "str" THEN fromisoformat(stored.value)
    ELSE [raised |-> TRUE, value |-> START_DATE]

\* offset_date from channel_info's last_fetched_datetime, before the try:
\* a falsy value (None, the empty string) gives START_DATE, any other str
\* goes through datetime.fromisoformat, a datetime is taken as is
PrepareOffset(stored) ==
    IF stored.type = "NoneType" \/ (stored.type = "str" /\ stored.value = EmptyText)
    THEN [raised |-> FALSE, value |-> START_DATE]
    ELSE IF stored.type = "str" THEN fromisoformat(stored.value)
    ELSE [raised |-> FALSE, value |-> Val(stored.value)]

\* a slip: only the first collected post sets latest_message_time
NextLatest_first(latest_message_time, message_data) ==
    IF IsNone(latest_message_time) THEN Some(message_data.message_datetime)
    ELSE latest_message_time

\* latest_message_time = message_data['message_datetime']
NextLatest(latest_message_time, message_data) == Some(message_data.message_datetime)

\* a slip: the checkpoint is written on the way out of a failed pass too
OnPassException_checkpoints(watermarks, locals) ==
    IF IsNone(locals.latest_message_time) THEN watermarks
    ELSE update_channel_last_fetched(watermarks, locals.channel_id,
                                     Val(locals.latest_message_time))

\* the except branch of process_channel: logs, writes nothing
OnPassException(watermarks, locals) == watermarks

\* the locals of process_channel when its loop starts; collected_dates is an
\* observation: the timestamps of the posts collected so far in the pass;
\* at_checkpoint is the position of the pass: the loop is through and the
\* pass awaits update_channel_last_fetched
StartLocals(channel_info, offset_date) ==
    [channel_id |-> channel_info.id,
     channel_name |-> channel_info.name,
     last_fetched |-> channel_info.last_fetched_datetime,
     offset_date |-> offset_date,
     cursor |-> 0,
     latest_message_time |-> None,
     processed_count |-> 0,
     collected_count |-> 0,
     collected_dates |-> {},
     at_checkpoint |-> FALSE]

\* a slip: latest_message_time follows every enumerated post, dropped or not
LoopLocals_every_post(p, message, message_data) ==
    [p EXCEPT
       !.cursor = message.id,
       !.processed_count = @ + 1,
       !.collected_count = IF IsNone(message_data) THEN @ ELSE @ + 1,
       !.latest_message_time = Some(message.date),
       !.collected_dates =
           IF IsNone(message_data) THEN @
           ELSE @ \cup {Val(message_data).message_datetime}]

\* the locals after a turn of the loop that did not raise
LoopLocals(p, message, message_data) ==
    [p EXCEPT
       !.cursor = message.id,
       !.processed_count = @ + 1,
       !.collected_count = IF IsNone(message_data) THEN @ ELSE @ + 1,
       !.latest_message_time =
           IF IsNone(message_data) THEN @ ELSE NextLatest(@, Val(message_data)),
       !.collected_dates =
           IF IsNone(message_data) THEN @
           ELSE @ \cup {Val(message_data).message_datetime}]

\* what find_duplicate may return for the post
Picks(msgs, message) ==
    LET found == find_duplicate(msgs, calculate_text_hash(message.text))
    IN  IF found = {} THEN {None} ELSE { Some(k) : k \in found }

\* a slip: validate returns False instead of raising, and run() goes on
StartupRaises_connect_only(startup) == startup = "connect_error"

\* a step of the startup of run() raises: Config.validate raises ValueError
\* when a credential is missing ("config_error"); Database.connect logs and
\* re-raises when the pool cannot be created ("connect_error");
\* initialize_schema raises ("schema_error"); get_active_exclusion_rules
\* raises ("rules_error"); the platform client cannot connect
\* ("telegram_error"); get_all_channels raises ("channels_error")
StartupRaises(startup) == startup # "ok"

\* what can go wrong in run() up to the return of initialize()
Startups == {"ok", "config_error", "connect_error", "schema_error", "rules_error"}

\* what can go wrong after it, before the for loop
Listings == {"ok", "telegram_error", "channels_error"}

\* run() up to the return of initialize(): validate, connect,
\* initialize_schema and the load of the rules, the one call there that reads
\* a table another process writes and the last that can fail; a failure ends
\* the run and leaves self.exclusion_rules unassigned
Initialize ==
    /\ ~running
    /\ ~initialized
    /\ \E startup \in Startups :
          IF StartupRaises(startup)
          THEN /\ last' = Event("run_fatal", 0, None, <<startup>>, TRUE, None)
               /\ UNCHANGED <<exclusion_rules, initialized>>
          ELSE /\ exclusion_rules' = rule_rows
               /\ initialized' = TRUE
               /\ last' = Event("run_initialized", 0, None, <<startup>>, FALSE, None)
    /\ UNCHANGED <<feed, rule_rows, last_fetched, messages, images, running, channels, idx,
                   pass, failed_passes, snap, lookups, probe, channel_rows, turn>>

\* run() from the connect of the platform client to the for loop:
\* get_all_channels reads the channels table as it is now; a failure ends the
\* run before any channel is touched; with no channel in the table run()
\* returns after a warning
ListChannels ==
    /\ ~running
    /\ initialized
    /\ initialized' = FALSE
    /\ \E listing \in Listings :
          IF StartupRaises(listing)
          THEN /\ last' = Event("run_fatal", 0, None, <<listing>>, TRUE, None)
               /\ UNCHANGED <<running, channels, idx, failed_passes>>
          ELSE \E rows \in get_all_channels(channel_rows, last_fetched) :
                  IF rows = <<>>
                  THEN /\ last' = Event("run_no_channels", 0, None, <<listing>>, FALSE, None)
                       /\ UNCHANGED <<running, channels, idx, failed_passes>>
                  ELSE /\ running' = TRUE
                       /\ channels' = rows
                       /\ idx' = 1
                       /\ failed_passes' = {}
                       /\ last' = Event("run_started", 0, None, <<listing>>, FALSE, None)
    /\ UNCHANGED <<feed, rule_rows, last_fetched, messages, images, exclusion_rules, pass,
                   snap, lookups, probe, channel_rows, turn>>

\* where the for loop of run() stands when run() is left: the channels of
\* its list and how many of them process_channel has returned for
LoopPosition(list, i) == [listed |-> Len(list), returned |-> i - 1]

\* process_channel up to its try; an exception here would leave
\* process_channel and the for loop of run(), which logs it, cleans up and
\* re-raises; no watermark the store holds makes the preparation raise
StartPass ==
    /\ running
    /\ IsNone(pass)
    /\ idx <= Len(channels)
    /\ LET channel_info == channels[idx]
           prep == PrepareOffset(channel_info.last_fetched_datetime)
       IN  IF prep.raised
           THEN /\ running' = FALSE
                /\ pass' = None
                /\ last' = Event("run_aborted", channel_info.id, None, <<>>, TRUE,
                                 Some(LoopPosition(channels, idx)))
                /\ channels' = <<>>
                /\ idx' = 1
           ELSE /\ running' = TRUE
                /\ pass' = Some(StartLocals(channel_info, prep.value))
                /\ last' = Event("pass_started", channel_info.id, None, <<>>, FALSE, None)
                /\ UNCHANGED <<channels, idx>>
    /\ UNCHANGED <<feed, rule_rows, last_fetched, messages, images, exclusion_rules,
                   failed_passes, snap, lookups, probe, channel_rows, turn, initialized>>

\* process_message returned or raised: the loop counts the post, or the
\* except clause of process_channel ends the pass
TurnEnds(p, message, calls, raised, data) ==
    /\ last' = Event("process_message", p.channel_id, Some(message), calls, raised, data)
    /\ IF raised
       THEN /\ pass' = None
            /\ idx' = idx + 1
            /\ failed_passes' = failed_passes \cup {p.channel_id}
            /\ last_fetched' = OnPassException(last_fetched, p)
       ELSE /\ pass' = Some(LoopLocals(p, message, data))
            /\ UNCHANGED <<idx, failed_passes, last_fetched>>

\* a turn of the loop of process_channel, one step per awaited call: the
\* pull of iter_messages with the first call of process_message, then each
\* further call of process_message and of process_single_photo. The platform
\* and other processes act between them.

\* the post the turn is about
TurnPost == NextPost(feed[Val(pass).channel_id], Val(pass).offset_date, Val(pass).cursor)

\* where the turn stands: at its start, or after the call that returned last
TurnStage == IF IsNone(turn) THEN "start" ELSE Val(turn).stage

\* the store calls the turn has made
TurnCalls == IF IsNone(turn) THEN <<>> ELSE Val(turn).calls

\* what find_duplicate returned to the turn
TurnPick == IF IsNone(turn) THEN None ELSE Val(turn).pick

\* a pass is in a turn at this stage
InTurn(stage) ==
    /\ ~IsNone(pass)
    /\ ~Val(pass).at_checkpoint
    /\ Pending(feed[Val(pass).channel_id], Val(pass).offset_date, Val(pass).cursor) # {}
    /\ TurnStage = stage

\* a slip: the verdict of should_collect_message is not read
TurnCollects_always == TRUE

\* should_collect, reason = self.should_collect_message(message)
TurnCollects == should_collect_message(TurnPost, exclusion_rules).collect

TurnChecks ==
    LET is_forwarded == ~IsNone(TurnPost.fwd_from)
    IN  ChecksDuplicate(is_forwarded, ForwardText(TurnPost, is_forwarded))

TurnFetches == FetchesPhoto(has_photo(TurnPost), ~IsNone(TurnPost.fwd_from))

\* message_data of the turn
TurnData == MessageData(TurnPost, Val(pass).channel_id, TurnPick)

\* an awaited call returned and process_message goes on
TurnMoves(stage, pick, image, calls) ==
    /\ turn' = Some([stage |-> stage, pick |-> pick, image |-> image, calls |-> calls])
    /\ last' = Event("await", Val(pass).channel_id, Some(TurnPost), calls, FALSE, None)
    /\ UNCHANGED <<pass, idx, failed_passes, last_fetched>>

\* process_message returns or raises
TurnReturns(calls, raised, data) ==
    /\ turn' = None
    /\ TurnEnds(Val(pass), TurnPost, calls, raised, data)

\* should_collect_message raises or says no
TurnDrop ==
    /\ InTurn("start")
    /\ \E fault \in {"none", "should_collect"} :
          /\ fault = "should_collect" \/ ~TurnCollects
          /\ TurnReturns(<<>>, fault = "should_collect", None)
    /\ UNCHANGED <<feed, rule_rows, messages, images, exclusion_rules, running, channels,
                   snap, lookups, probe, channel_rows, initialized>>

\* await find_duplicate: it reads the messages table as it is now
TurnLookup ==
    /\ InTurn("start")
    /\ TurnCollects
    /\ TurnChecks
    /\ \E fault \in {"none", "find_duplicate"} :
          IF fault = "find_duplicate"
          THEN TurnReturns(<<"find_duplicate">>, TRUE, None)
          ELSE \E pick \in Picks(messages, TurnPost) :
                  TurnMoves("found", pick, None, <<"find_duplicate">>)
    /\ UNCHANGED <<feed, rule_rows, messages, images, exclusion_rules, running, channels,
                   snap, lookups, probe, channel_rows, initialized>>

\* await insert_message with the row built from what the lookup returned
TurnInsert ==
    /\ \/ InTurn("found")
       \/ InTurn("start") /\ TurnCollects /\ ~TurnChecks
    /\ LET calls == TurnCalls \o <<"insert_message">>
       IN  \E fault \in {"none", "insert_message"} :
              IF fault = "insert_message"
              THEN /\ TurnReturns(calls, TRUE, None)
                   /\ UNCHANGED messages
              ELSE /\ messages' = insert_message(messages, TurnData)
                   /\ IF TurnFetches
                      THEN TurnMoves("inserted", TurnPick, None, calls)
                      ELSE TurnReturns(calls, FALSE, Some(TurnData))
    /\ UNCHANGED <<feed, rule_rows, images, exclusion_rules, running, channels, snap,
                   lookups, probe, channel_rows, initialized>>

\* a slip: an existing Image record is re-pointed at the post that carries
\* the photo again
OnImageExists_repoints(imgs, message, channel_id) ==
    { IF r.file_id = Str(Val(message.photo).id)
      THEN [r EXCEPT !.message_channel_id = channel_id,
                     !.message_message_id = message.id]
      ELSE r : r \in imgs }

\* if await self.db.image_exists(str(file_id)): return, and the record is
\* left as it is
OnImageExists(imgs, message, channel_id) == imgs

\* process_single_photo: await image_exists
TurnImageExists ==
    /\ InTurn("inserted")
    /\ LET calls == TurnCalls \o <<"image_exists">>
       IN  \E fault \in {"none", "image_exists"} :
              IF fault = "image_exists"
              THEN /\ TurnReturns(calls, TRUE, None)
                   /\ UNCHANGED images
              ELSE IF SkipIfExists(images, Str(Val(TurnPost.photo).id))
              THEN /\ images' = OnImageExists(images, TurnPost, Val(pass).channel_id)
                   /\ TurnReturns(calls, FALSE, Some(TurnData))
              ELSE /\ TurnMoves("checked", TurnPick, None, calls)
                   /\ UNCHANGED images
    /\ UNCHANGED <<feed, rule_rows, messages, exclusion_rules, running, channels,
                   snap, lookups, probe, channel_rows, initialized>>

\* process_single_photo: await download_and_compress_photo
TurnDownload ==
    /\ InTurn("checked")
    /\ LET calls == TurnCalls \o <<"download">>
       IN  \E outcome \in DownloadOutcomes :
              LET image_data ==
                      download_and_compress_photo(TurnPost, Val(pass).channel_name,
                                                  Str(Val(TurnPost.photo).id), outcome)
              IN  IF image_data.raised
                  THEN TurnReturns(calls, TRUE, None)
                  ELSE IF IsNone(image_data.value)
                  THEN TurnReturns(calls, FALSE, Some(TurnData))
                  ELSE TurnMoves("downloaded", TurnPick, image_data.value, calls)
    /\ UNCHANGED <<feed, rule_rows, messages, images, exclusion_rules, running, channels,
                   snap, lookups, probe, channel_rows, initialized>>

\* process_single_photo: await insert_image
TurnInsertImage ==
    /\ InTurn("downloaded")
    /\ LET calls == TurnCalls \o <<"insert_image">>
       IN  \E fault \in {"none", "insert_image"} :
              IF fault = "insert_image"
              THEN /\ TurnReturns(calls, TRUE, None)
                   /\ UNCHANGED images
              ELSE /\ images' = insert_image(images,
                                             ImageRow(TurnPost, Val(pass).channel_id,
                                                      Val(Val(turn).image)))
                   /\ TurnReturns(calls, FALSE, Some(TurnData))
    /\ UNCHANGED <<feed, rule_rows, messages, exclusion_rules, running, channels, snap,
                   lookups, probe, channel_rows, initialized>>

\* iter_messages raises (a platform failure mid-stream): the except branch
IterError ==
    /\ ~IsNone(pass)
    /\ IsNone(turn)
    /\ LET p == Val(pass)
       IN  /\ ~p.at_checkpoint
           /\ last' = Event("iter_messages", p.channel_id, None, <<>>, TRUE, pass)
           /\ last_fetched' = OnPassException(last_fetched, p)
           /\ failed_passes' = failed_passes \cup {p.channel_id}
    /\ pass' = None
    /\ idx' = idx + 1
    /\ UNCHANGED <<feed, rule_rows, messages, images, exclusion_rules, running,
                   channels, snap, lookups, probe, channel_rows, turn, initialized>>

\* the last pull of iter_messages finds no post: the loop is through. With
\* no post collected process_channel logs and returns; else it goes on to
\* await update_channel_last_fetched, and the channel may publish meanwhile
LoopEnds ==
    /\ ~IsNone(pass)
    /\ IsNone(turn)
    /\ LET p == Val(pass)
       IN  /\ ~p.at_checkpoint
           /\ Pending(feed[p.channel_id], p.offset_date, p.cursor) = {}
           /\ IF IsNone(p.latest_message_time)
              THEN /\ last' = Event("pass_completed", p.channel_id, None, <<>>, FALSE, pass)
                   /\ pass' = None
                   /\ idx' = idx + 1
              ELSE /\ last' = Event("loop_ended", p.channel_id, None, <<>>, FALSE, pass)
                   /\ pass' = Some([p EXCEPT !.at_checkpoint = TRUE])
                   /\ UNCHANGED idx
    /\ UNCHANGED <<feed, rule_rows, last_fetched, messages, images, exclusion_rules, running,
                   channels, failed_passes, snap, lookups, probe, channel_rows, turn,
                   initialized>>

\* await update_channel_last_fetched(channel_id, latest_message_time): the
\* watermark is written, or the call raises into the except branch
Checkpoint ==
    /\ ~IsNone(pass)
    /\ IsNone(turn)
    /\ LET p == Val(pass)
       IN  /\ p.at_checkpoint
           /\ \E fault \in {"none", "update_channel_last_fetched"} :
                IF fault = "none"
                THEN /\ last' = Event("pass_completed", p.channel_id, None,
                                      <<"update_channel_last_fetched">>, FALSE, pass)
                     /\ last_fetched' = update_channel_last_fetched(
                                            last_fetched, p.channel_id,
                                            Val(p.latest_message_time))
                     /\ UNCHANGED failed_passes
                ELSE /\ last' = Event("pass_completed", p.channel_id, None,
                                      <<"update_channel_last_fetched">>, TRUE, pass)
                     /\ last_fetched' = OnPassException(last_fetched, p)
                     /\ failed_passes' = failed_passes \cup {p.channel_id}
    /\ pass' = None
    /\ idx' = idx + 1
    /\ UNCHANGED <<feed, rule_rows, messages, images, exclusion_rules, running,
                   channels, snap, lookups, probe, channel_rows, turn, initialized>>

\* the for loop of run() is through: "Collection completed successfully"
EndRun ==
    /\ running
    /\ IsNone(pass)
    /\ idx > Len(channels)
    /\ running' = FALSE
    /\ last' = Event("run_completed", 0, None, <<>>, FALSE,
                     Some(LoopPosition(channels, idx)))
    /\ channels' = <<>>
    /\ idx' = 1
    /\ UNCHANGED <<feed, rule_rows, last_fetched, messages, images, exclusion_rules,
                   pass, failed_passes, snap, lookups, probe, channel_rows, turn, initialized>>

\* the collector's own steps
Collector ==
    \/ Initialize
    \/ ListChannels
    \/ StartPass
    \/ TurnDrop
    \/ TurnLookup
    \/ TurnInsert
    \/ TurnImageExists
    \/ TurnDownload
    \/ TurnInsertImage
    \/ IterError
    \/ LoopEnds
    \/ Checkpoint
    \/ EndRun

\* runs of the collector over channels that keep publishing
Next ==
    \/ \E c \in ChannelIds : Publish(c)
    \/ Collector

Spec == Init /\ [][Next]_vars

\* ------------------------------------------------- a run over a single post

\* one channel holds one post of any shape and the rules table any of the
\* rule lists; nothing is published afterwards
InitOne ==
    /\ \E kind \in AnyKinds \cup AlbumKinds :
          feed = [c \in ChannelIds |->
                    IF c = ChannelTable[1].id THEN <<Post(kind, 1, START_DATE + 1)>>
                    ELSE <<>>]
    /\ rule_rows \in AnyRules
    /\ last_fetched = [c \in ChannelIds |-> WmNull]
    /\ channel_rows = ChannelIds
    /\ Constructed

SpecOne == InitOne /\ [][Collector]_vars

\* ------------------------------------------------ a run over two channels

\* the shapes of a post when each channel holds one: with and without text,
\* equal and different texts, with and without a photo, forwarded or not
PairKinds ==
    { Kind(text, media, IF media = "photo" THEN Some(PhotoJpeg) ELSE None, fwd_from) :
        text \in {<<>>, TextA, TextLong},
        media \in {"none", "photo"},
        fwd_from \in {None, Some(FwdChannel)} }

InitPairs ==
    /\ \E k1 \in PairKinds, k2 \in PairKinds :
          feed = [c \in ChannelIds |->
                    IF c = ChannelTable[1].id THEN <<Post(k1, 1, START_DATE + 1)>>
                    ELSE <<Post(k2, 1, START_DATE + 1)>>]
    /\ rule_rows = MainRules
    /\ last_fetched = [c \in ChannelIds |-> WmNull]
    /\ channel_rows = ChannelIds
    /\ Constructed

SpecPairs == InitPairs /\ [][Collector]_vars

\* --------------------------------------------- replay over a fixed backlog

\* the backlogs of at most n posts a channel can hold
RECURSIVE Backlogs(_)
Backlogs(n) ==
    IF n = 0 THEN {<<>>}
    ELSE LET shorter == Backlogs(n - 1)
         IN  shorter \cup
             UNION { { Append(b, Post(kind, n, date)) :
                          kind \in PostKinds, date \in NextDates(b) } :
                     b \in { x \in shorter : Len(x) = n - 1 } }

InitReplay ==
    /\ feed \in { f \in [ChannelIds -> Backlogs(MaxPosts)] :
                    Len(f[ChannelTable[1].id]) + Len(f[ChannelTable[2].id]) <= MaxPosts }
    /\ rule_rows = MainRules
    /\ last_fetched = [c \in ChannelIds |-> WmNull]
    /\ channel_rows = ChannelIds
    /\ Constructed

\* after a run in which every pass completed an operator sets every
\* watermark back to NULL, which process_channel reads as START_DATE
Reset ==
    /\ ~running
    /\ last.op = "run_completed"
    /\ failed_passes = {}
    /\ IsNone(snap)
    /\ snap' = Some([messages |-> messages, images |-> images])
    /\ last_fetched' = [c \in ChannelIds |-> WmNull]
    /\ last' = Event("reset", 0, None, <<>>, FALSE, None)
    /\ UNCHANGED <<feed, rule_rows, messages, images, exclusion_rules, running,
                   channels, idx, pass, failed_passes, lookups, probe, channel_rows, turn,
                   initialized>>

NextReplay == Collector \/ Reset

SpecReplay == InitReplay /\ [][NextReplay]_vars

\* ------------------------------------------------ a process-level interrupt

\* KeyboardInterrupt and CancelledError are no Exception: they pass the
\* except clauses of process_channel and of run(), which write nothing
OnInterrupt(watermarks, locals) == watermarks

\* the call a turn is suspended at: the first call of process_message while
\* the loop waits for the post (none for a post that is dropped), else the
\* call after the one that returned last
TurnAwaits ==
    IF TurnStage = "start"
    THEN IF ~TurnCollects THEN None
         ELSE IF TurnChecks THEN Some("find_duplicate") ELSE Some("insert_message")
    ELSE IF TurnStage = "found" THEN Some("insert_message")
    ELSE IF TurnStage = "inserted" THEN Some("image_exists")
    ELSE IF TurnStage = "checked" THEN Some("download")
    ELSE Some("insert_image")

\* the interrupt arrives while run() is suspended. In a turn of the loop it
\* arrives at the pull of iter_messages or at the call the turn awaits, whose
\* statement has been executed or has not. At the last pull of iter_messages
\* nothing is written. At the await of update_channel_last_fetched the
\* UPDATE has been executed or has not. Outside a pass (initialize, the
\* connect of the client, get_all_channels, cleanup) nothing is written. The
\* exception leaves process_channel and run().
Interrupt ==
    /\ IF IsNone(pass)
       THEN /\ last' = Event("interrupt", 0, None, <<>>, TRUE, None)
            /\ UNCHANGED <<messages, images, last_fetched>>
       ELSE LET p == Val(pass)
            IN  IF p.at_checkpoint
                THEN /\ \E executed \in BOOLEAN :
                           last_fetched' =
                               IF executed
                               THEN update_channel_last_fetched(last_fetched, p.channel_id,
                                                                Val(p.latest_message_time))
                               ELSE OnInterrupt(last_fetched, p)
                     /\ last' = Event("interrupt", p.channel_id, None,
                                      <<"update_channel_last_fetched">>, TRUE, pass)
                     /\ UNCHANGED <<messages, images>>
                ELSE IF Pending(feed[p.channel_id], p.offset_date, p.cursor) # {}
                THEN \E at \in (IF IsNone(turn) THEN {None} ELSE {}) \cup {TurnAwaits},
                        executed \in BOOLEAN :
                        /\ messages' = IF at = Some("insert_message") /\ executed
                                       THEN insert_message(messages, TurnData)
                                       ELSE messages
                        /\ images' = IF at = Some("insert_image") /\ executed
                                     THEN insert_image(images,
                                                       ImageRow(TurnPost, p.channel_id,
                                                                Val(Val(turn).image)))
                                     ELSE images
                        /\ last' = Event("interrupt", p.channel_id, Some(TurnPost),
                                         IF IsNone(at) THEN TurnCalls
                                         ELSE TurnCalls \o <<Val(at)>>, TRUE, pass)
                        /\ last_fetched' = OnInterrupt(last_fetched, p)
                ELSE /\ last_fetched' = OnInterrupt(last_fetched, p)
                     /\ last' = Event("interrupt", p.channel_id, None, <<>>, TRUE, pass)
                     /\ UNCHANGED <<messages, images>>
    /\ pass' = None
    /\ turn' = None
    /\ initialized' = FALSE
    /\ running' = FALSE
    /\ channels' = <<>>
    /\ idx' = 1
    /\ UNCHANGED <<feed, rule_rows, exclusion_rules, failed_passes, snap, lookups, probe,
                   channel_rows>>

\* runs over channels that hold a backlog and keep publishing, and an
\* interrupt at any point of a pass
NextCancel ==
    \/ \E c \in ChannelIds : Publish(c)
    \/ Collector
    \/ Interrupt

SpecCancel == InitReplay /\ [][NextCancel]_vars

\* --------------------------------------------- one post, photos of any size

\* what Pillow reports as img.format, lower-cased
PhotoFormats == {"jpeg", "png", "webp"}

\* img.size of the source: at most the maximum width, just above it, and
\* wider, with heights that scale to an integer, to a fraction and to zero
PhotoSizes == { <<640, 480>>, <<1280, 960>>, <<1281, 1>>, <<1432, 537>>, <<2560, 1441>> }

PhotoKinds ==
    { Kind(TextA, "photo",
           Some([id |-> 11, format |-> format, width |-> size[1], height |-> size[2]]),
           None) :
        format \in PhotoFormats, size \in PhotoSizes }

InitPhotos ==
    /\ \E kind \in PhotoKinds :
          feed = [c \in ChannelIds |->
                    IF c = ChannelTable[1].id THEN <<Post(kind, 1, START_DATE + 1)>>
                    ELSE <<>>]
    /\ rule_rows = MainRules
    /\ last_fetched = [c \in ChannelIds |-> WmNull]
    /\ channel_rows = ChannelIds
    /\ Constructed

SpecPhotos == InitPhotos /\ [][Collector]_vars

\* ------------------------------------------- should_exclude_message alone

MaxRules == 2

\* texts and patterns over the letters whose case the rules tell apart
ProbeTexts ==
    { <<>>, <<"a">>, <<"b">>, <<"a", "d">>, <<"A", "D">>, <<"d", "a">>,
      <<"b", "a", "d">>, <<"B", "A", "D">> }

\* a pattern is never empty: manage_db.py refuses one
ProbeRules ==
    { Rule(pattern, rule_type, is_case_sensitive) :
        pattern \in { <<"a", "d">>, <<"A", "D">>, <<"b">> },
        rule_type \in {"exact", "contains"},
        is_case_sensitive \in BOOLEAN }

\* rule lists of at most n rows
RuleLists(n) == UNION { [1..k -> ProbeRules] : k \in 0..n }

\* the orders a list of rows can be returned in
Reorderings(rules) ==
    { [i \in 1..Len(rules) |-> rules[f[i]]] :
        f \in { g \in [1..Len(rules) -> 1..Len(rules)] :
                  \A i, j \in 1..Len(rules) : g[i] = g[j] => i = j } }

InitRules ==
    /\ feed = [c \in ChannelIds |-> <<>>]
    /\ rule_rows = <<>>
    /\ last_fetched = [c \in ChannelIds |-> WmNull]
    /\ channel_rows = ChannelIds
    /\ messages = <<>>
    /\ images = {}
    /\ exclusion_rules = <<>>
    /\ running = FALSE
    /\ channels = <<>>
    /\ idx = 1
    /\ pass = None
    /\ failed_passes = {}
    /\ last = NoEvent
    /\ snap = None
    /\ lookups = None
    /\ turn = None
    /\ initialized = FALSE
    /\ \E message_text \in ProbeTexts, rules \in RuleLists(MaxRules) :
          probe = [op |-> "arguments", message_text |-> message_text, rules |-> rules]

\* should_exclude_message is called on the arguments, and again with the
\* same rows in another order
ExcludeCall ==
    /\ probe.op = "arguments"
    /\ \E reordered \in Reorderings(probe.rules) :
          probe' = [op |-> "should_exclude_message",
                    message_text |-> probe.message_text,
                    rules |-> probe.rules,
                    result |-> should_exclude_message(probe.message_text, probe.rules),
                    sqlite |-> should_exclude_message_sqlite(probe.message_text,
                                                             probe.rules),
                    reordered |-> reordered,
                    result_reordered |->
                        should_exclude_message(probe.message_text, reordered)]
    /\ UNCHANGED <<feed, rule_rows, last_fetched, messages, images, exclusion_rules,
                   running, channels, idx, pass, failed_passes, last, snap, lookups,
                   channel_rows, turn, initialized>>

SpecRules == InitRules /\ [][ExcludeCall]_vars

\* ------------------------------------------- two passes at the same time

\* two passes, one per channel, run against one store (two collector
\* processes, or passes gathered on one loop); each channel holds one post.
\* A pass is suspended at every await of process_message and of
\* process_single_photo (find_duplicate, insert_message, image_exists,
\* download_and_compress_photo, insert_image) and the other pass runs
\* between any two of them.
InitParallel ==
    /\ \E k1 \in PairKinds, k2 \in PairKinds :
          feed = [c \in ChannelIds |->
                    IF c = ChannelTable[1].id THEN <<Post(k1, 1, START_DATE + 1)>>
                    ELSE <<Post(k2, 1, START_DATE + 1)>>]
    /\ rule_rows = MainRules
    /\ last_fetched = [c \in ChannelIds |-> WmNull]
    /\ channel_rows = ChannelIds
    /\ messages = <<>>
    /\ images = {}
    /\ exclusion_rules = MainRules
    /\ running = TRUE
    /\ channels \in get_all_channels(ChannelIds, [c \in ChannelIds |-> WmNull])
    /\ idx = 1
    /\ pass = None
    /\ failed_passes = {}
    /\ last = NoEvent
    /\ snap = None
    /\ lookups = [c \in ChannelIds |-> [stage |-> "start", pick |-> None, image |-> None]]
    /\ probe = None
    /\ turn = None
    /\ initialized = FALSE

\* the post the pass of channel c is at
ParallelPost(c) == feed[c][1]

\* the pass awaits find_duplicate before it builds its row
ParallelChecks(c) ==
    LET message == ParallelPost(c)
        is_forwarded == ~IsNone(message.fwd_from)
    IN  ChecksDuplicate(is_forwarded, ForwardText(message, is_forwarded))

\* the pass goes on to process_single_photo after insert_message
ParallelFetches(c) ==
    FetchesPhoto(has_photo(ParallelPost(c)), ~IsNone(ParallelPost(c).fwd_from))

\* a step of the pass of channel c: its position moves to stage, with what
\* it holds from the calls that returned
ParallelMove(c, op, stage, pick, image) ==
    /\ lookups' = [lookups EXCEPT ![c] = [stage |-> stage, pick |-> pick, image |-> image]]
    /\ last' = Event(op, c, Some(ParallelPost(c)), <<>>, FALSE, None)
    /\ UNCHANGED <<feed, rule_rows, last_fetched, exclusion_rules, running, channels,
                   idx, pass, failed_passes, snap, probe, channel_rows, turn, initialized>>

\* should_collect_message says no: process_message returns None
ParallelDrop(c) ==
    /\ lookups[c].stage = "start"
    /\ ~should_collect_message(ParallelPost(c), exclusion_rules).collect
    /\ ParallelMove(c, "should_collect", "done", None, None)
    /\ UNCHANGED <<messages, images>>

\* the pass of channel c runs process_message up to the return of
\* find_duplicate, which reads the store as it is now
ParallelLookup(c) ==
    /\ lookups[c].stage = "start"
    /\ should_collect_message(ParallelPost(c), exclusion_rules).collect
    /\ ParallelChecks(c)
    /\ \E pick \in Picks(messages, ParallelPost(c)) :
          ParallelMove(c, "find_duplicate", "found", pick, None)
    /\ UNCHANGED <<messages, images>>

\* insert_message with the row built from the answer the lookup got
ParallelInsert(c) ==
    /\ \/ lookups[c].stage = "found"
       \/ /\ lookups[c].stage = "start"
          /\ should_collect_message(ParallelPost(c), exclusion_rules).collect
          /\ ~ParallelChecks(c)
    /\ messages' = insert_message(messages, MessageData(ParallelPost(c), c, lookups[c].pick))
    /\ ParallelMove(c, "insert_message",
                    IF ParallelFetches(c) THEN "inserted" ELSE "done",
                    lookups[c].pick, None)
    /\ UNCHANGED images

\* process_single_photo: image_exists reads the images table as it is now
ParallelImageExists(c) ==
    /\ lookups[c].stage = "inserted"
    /\ ParallelMove(c, "image_exists",
                    IF SkipIfExists(images, Str(Val(ParallelPost(c).photo).id))
                    THEN "done" ELSE "checked",
                    lookups[c].pick, None)
    /\ UNCHANGED <<messages, images>>

\* download_and_compress_photo returns; without image data the pass logs a
\* warning and process_single_photo returns
ParallelDownload(c) ==
    /\ lookups[c].stage = "checked"
    /\ \E outcome \in DownloadOutcomes :
          LET image_data ==
                  download_and_compress_photo(ParallelPost(c), ChannelName(c),
                                              Str(Val(ParallelPost(c).photo).id), outcome)
          IN  IF image_data.raised \/ IsNone(image_data.value)
              THEN ParallelMove(c, "download", "done", lookups[c].pick, None)
              ELSE ParallelMove(c, "download", "downloaded", lookups[c].pick,
                                image_data.value)
    /\ UNCHANGED <<messages, images>>

\* insert_image with the row of the downloaded file
ParallelInsertImage(c) ==
    /\ lookups[c].stage = "downloaded"
    /\ images' = insert_image(images, ImageRow(ParallelPost(c), c, Val(lookups[c].image)))
    /\ ParallelMove(c, "insert_image", "done", lookups[c].pick, lookups[c].image)
    /\ UNCHANGED messages

NextParallel ==
    \E c \in ChannelIds :
        \/ ParallelDrop(c)
        \/ ParallelLookup(c)
        \/ ParallelInsert(c)
        \/ ParallelImageExists(c)
        \/ ParallelDownload(c)
        \/ ParallelInsertImage(c)

SpecParallel == InitParallel /\ [][NextParallel]_vars

\* ----------------------------------------------- administrative operations

\* INSERT INTO channels ... ON CONFLICT (telegram_channel_id) DO NOTHING: the
\* new row has no last_fetched_datetime
add_channel(rows, telegram_channel_id) == rows \cup {telegram_channel_id}

\* INSERT INTO exclusion_rules: the new row has the highest id; is_active is
\* not among the inserted columns and takes the default of the column
add_exclusion_rule(rules, rule, is_active) ==
    IF is_active = 1 THEN Append(rules, rule) ELSE rules

\* executemany of INSERT INTO messages ... ON CONFLICT (channel_id,
\* message_id) DO NOTHING over the rows of the list, in its order
RECURSIVE bulk_insert_messages(_, _)
bulk_insert_messages(msgs, rows) ==
    IF rows = <<>> THEN msgs
    ELSE bulk_insert_messages(insert_message(msgs, Head(rows)), Tail(rows))

\* the rules an administrator adds
AdminRules == { Rule(<<"A", "d">>, "contains", FALSE) }

\* the rows a caller passes to bulk_insert_messages: rows of posts of the
\* feeds, none of them looked up as a duplicate
BulkRows ==
    { MessageData(feed[c][i], c, None) : c \in ChannelIds, i \in {1} }

BulkLists ==
    {<<>>} \cup { <<r>> : r \in BulkRows } \cup { <<r1, r2>> : r1 \in BulkRows, r2 \in BulkRows }

\* the posts of the first channel: one with a photo that a rule can match,
\* or one with the text of the post of the other channel
AdminKinds == { Kind(TextAd, "photo", Some(PhotoJpeg), None), Kind(TextA, "none", None, None) }

\* the tables are empty; each channel of the platform holds one post
InitAdmin ==
    /\ \E kind \in AdminKinds :
          feed = [c \in ChannelIds |->
                    IF c = ChannelTable[1].id
                    THEN <<Post(kind, 1, START_DATE + 1)>>
                    ELSE <<Post(Kind(TextA, "none", None, None), 1, START_DATE + 1)>>]
    /\ rule_rows = <<>>
    /\ last_fetched = [c \in ChannelIds |-> WmNull]
    /\ channel_rows = {}
    /\ Constructed

\* DatabaseManager.add_channel registers a channel of the platform
AddChannel(c) ==
    /\ channel_rows' = add_channel(channel_rows, c)
    /\ last' = Event("add_channel", c, None, <<>>, FALSE, None)
    /\ UNCHANGED <<feed, rule_rows, last_fetched, messages, images, exclusion_rules,
                   running, channels, idx, pass, failed_passes, snap, lookups, probe,
                   turn, initialized>>

\* DatabaseManager.add_exclusion_rule; a running collector keeps the list it
\* loaded
AddExclusionRule(rule) ==
    /\ Len(rule_rows) < MaxRules
    /\ \E is_active \in {0, 1} :
          rule_rows' = add_exclusion_rule(rule_rows, rule, is_active)
    /\ last' = Event("add_exclusion_rule", 0, None, <<>>, FALSE, None)
    /\ UNCHANGED <<feed, last_fetched, messages, images, exclusion_rules, running,
                   channels, idx, pass, failed_passes, snap, lookups, probe, channel_rows, turn,
                   initialized>>

\* Database.bulk_insert_messages: no filter, no duplicate lookup, no photo
BulkInsertMessages(rows) ==
    /\ messages' = bulk_insert_messages(messages, rows)
    /\ last' = Event("bulk_insert_messages", 0, None, <<>>, FALSE, None)
    /\ UNCHANGED <<feed, rule_rows, last_fetched, images, exclusion_rules, running,
                   channels, idx, pass, failed_passes, snap, lookups, probe, channel_rows, turn,
                   initialized>>

Admin ==
    \/ \E c \in ChannelIds : AddChannel(c)
    \/ \E rule \in AdminRules : AddExclusionRule(rule)
    \/ \E rows \in BulkLists : BulkInsertMessages(rows)

\* the collector and the administrative operations of another process, which
\* run between its awaits
NextAdmin == Collector \/ Admin

SpecAdmin == InitAdmin /\ [][NextAdmin]_vars

\* ------------------------------------------------------------- properties

InCalls(name, calls) == \E i \in 1..Len(calls) : calls[i] = name

\* the platform post a messages row was made from
SourcePost(row) == feed[row.channel_id][row.message_id]

RowKey(row) == <<row.channel_id, row.message_id>>

\* the epoch count a watermark stands for (START_DATE when never fetched)
WmTime(stored) == PrepareOffset(stored).value

IsPrefix(s, t) == Len(s) <= Len(t) /\ SubSeq(t, 1, Len(s)) = s

\* the step is a turn of the loop of process_channel
ProcessStep == ~IsNone(pass) /\ pass' # pass /\ last'.op = "process_message"

\* the step ends a pass in the except branch
FailStep == ~IsNone(pass) /\ IsNone(pass') /\ last'.raised

\* the step ends a pass without an exception
CompleteStep == ~IsNone(pass) /\ IsNone(pass') /\ ~last'.raised

\* the non-forward posts with non-empty text that have a row, by row index
TextRows == { i \in 1..Len(messages) :
                IsNone(SourcePost(messages[i]).fwd_from)
                /\ SourcePost(messages[i]).text # <<>> }

\* C2: among the stored non-forward posts with the same non-empty text, the
\* first one inserted is the original (is_duplicate = 0, no duplicate target,
\* fingerprint and text kept) and every later one is a duplicate of it
\* (is_duplicate = 1, target the first one's key, text absent).
C2_DuplicateTieBreak ==
    \A i \in TextRows, j \in TextRows :
        LET first == messages[i]
            later == messages[j]
            text == SourcePost(first).text
        IN  ( /\ i < j
              /\ SourcePost(later).text = text
              /\ \A k \in TextRows : SourcePost(messages[k]).text = text => i <= k )
            => /\ first.is_duplicate = 0
               /\ IsNone(first.duplicate_of)
               /\ first.text_hash = Some(calculate_text_hash(text))
               /\ first.message_text = Some(text)
               /\ later.is_duplicate = 1
               /\ later.duplicate_of = Some(RowKey(first))
               /\ IsNone(later.message_text)

\* two posts of different channels with the same text are stored, the later
\* one as a duplicate of the first
C2_Witness ==
    \E i \in TextRows, j \in TextRows :
        /\ i < j
        /\ SourcePost(messages[i]).text = SourcePost(messages[j]).text
        /\ messages[i].channel_id # messages[j].channel_id
        /\ messages[j].duplicate_of = Some(RowKey(messages[i]))

\* C3: a row with is_forwarded = 1 never has text; processing a forwarded
\* post never reaches the photo path (no existence check, no download, no
\* Image insert) and no Image record is owned by a forwarded post.
C3_ForwardSuppression ==
    /\ \A i \in 1..Len(messages) :
          messages[i].is_forwarded = 1 => IsNone(messages[i].message_text)
    /\ \A r \in images :
          IsNone(feed[r.message_channel_id][r.message_message_id].fwd_from)
    /\ ( last.op = "process_message" /\ ~IsNone(Val(last.message).fwd_from) )
          => /\ ~InCalls("image_exists", last.calls)
             /\ ~InCalls("download", last.calls)
             /\ ~InCalls("insert_image", last.calls)

\* a forwarded post with a photo and text of the minimum length was processed
\* and stored, and its photo has no Image record
C3_Witness ==
    /\ last.op = "process_message"
    /\ ~last.raised
    /\ ~IsNone(Val(last.message).fwd_from)
    /\ has_photo(Val(last.message))
    /\ Len(Val(last.message).text) >= MIN_TEXT_LENGTH
    /\ MessageExists(messages, last.channel_id, Val(last.message).id)
    /\ ~image_exists(images, Str(Val(Val(last.message).photo).id))

\* C4: a pass that completes without error after collecting a post leaves
\* the channel's watermark at the maximum timestamp collected in the pass,
\* which is at or after the watermark the pass started from; and no step
\* lowers a watermark.
C4_WatermarkMonotonic ==
    [][ /\ \A c \in ChannelIds : WmTime(last_fetched[c]) <= WmTime(last_fetched'[c])
        /\ ( CompleteStep /\ Val(pass).collected_count > 0 )
              => /\ last_fetched'[Val(pass).channel_id]
                      = WmDatetime(Max(Val(pass).collected_dates))
                 /\ Max(Val(pass).collected_dates) >= WmTime(Val(pass).last_fetched)
                 /\ WmTime(Val(pass).last_fetched) = WmTime(last_fetched[Val(pass).channel_id])
      ]_vars

\* a pass that started from a watermark has completed and moved it forward
C4_Witness ==
    /\ last.op = "pass_completed"
    /\ ~last.raised
    /\ Val(last.data).collected_count > 0
    /\ Val(last.data).last_fetched # WmNull
    /\ WmTime(last_fetched[last.channel_id]) > WmTime(Val(last.data).last_fetched)

\* C5: a step that ends a pass by an exception leaves the channel's
\* watermark at the value the pass started from and keeps every Post and
\* Image record written before it; and every pass starts from the watermark
\* the channel has at that time.
C5_FailedPassKeepsCheckpoint ==
    [][ /\ FailStep
            => /\ last_fetched' = last_fetched
               /\ last_fetched'[Val(pass).channel_id] = Val(pass).last_fetched
               /\ IsPrefix(messages, messages')
               /\ images \subseteq images'
        /\ ( IsNone(pass) /\ ~IsNone(pass') )
            => /\ Val(pass').last_fetched = last_fetched[Val(pass').channel_id]
               /\ Val(pass').offset_date = WmTime(last_fetched[Val(pass').channel_id])
      ]_vars

\* a pass has failed after it had collected a post with its photo: the
\* records are there and the channel has still never been checkpointed
C5_Witness ==
    /\ last.raised
    /\ last.channel_id \in failed_passes
    /\ last_fetched[last.channel_id] = WmNull
    /\ \E i \in 1..Len(messages) : messages[i].channel_id = last.channel_id
    /\ \E r \in images : r.message_channel_id = last.channel_id

\* C9: a turn of the loop downloads a photo or inserts an Image record only
\* if no Image record with the photo's file id was in the store before it.
C9_ExistenceShortCircuit ==
    [][ ( /\ ProcessStep
          /\ \/ InCalls("download", last'.calls)
             \/ InCalls("insert_image", last'.calls) )
        => ~image_exists(images, Str(Val(Val(last'.message).photo).id))
      ]_vars

\* a post carrying a photo whose Image record exists was processed: the
\* existence check was the last call of the photo path
C9_Witness ==
    /\ last.op = "process_message"
    /\ ~last.raised
    /\ InCalls("image_exists", last.calls)
    /\ ~InCalls("download", last.calls)
    /\ \E r \in images :
          /\ r.file_id = Str(Val(Val(last.message).photo).id)
          /\ <<r.message_channel_id, r.message_message_id>>
                # <<last.channel_id, Val(last.message).id>>

\* C10: when the download path of a collected post yields no image, the
\* post's record is in the store, no Image record exists for the photo, the
\* turn did not raise and the pass goes on after that post.
C10_AssetFailureNonFatal ==
    ( /\ last.op = "process_message"
      /\ InCalls("download", last.calls)
      /\ ~InCalls("insert_image", last.calls) )
    => /\ ~last.raised
       /\ MessageExists(messages, last.channel_id, Val(last.message).id)
       /\ ~image_exists(images, Str(Val(Val(last.message).photo).id))
       /\ ~IsNone(pass)
       /\ Val(pass).channel_id = last.channel_id
       /\ Val(pass).cursor = Val(last.message).id
       /\ Val(pass).collected_count > 0
       /\ last.channel_id \notin failed_passes

\* a download failed and the pass went on to collect the next post
C10_Witness ==
    /\ ~IsNone(pass)
    /\ Val(pass).collected_count = 2
    /\ last.op = "process_message"
    /\ ~last.raised
    /\ \E i \in 1..Len(messages) :
          /\ messages[i].channel_id = last.channel_id
          /\ messages[i].has_media = 1
          /\ messages[i].is_forwarded = 0
          /\ messages[i].message_id < Val(last.message).id
          /\ ~image_exists(images, Str(Val(SourcePost(messages[i]).photo).id))

\* a run after the reset has ended with every pass completed
ReplayDone ==
    /\ ~IsNone(snap)
    /\ ~running
    /\ last.op = "run_completed"
    /\ failed_passes = {}

\* the photos the first run left without an Image record although their
\* post was collected and is not a forward
Unfetched(store) ==
    { Str(Val(feed[store.messages[i].channel_id][store.messages[i].message_id].photo).id) :
        i \in { j \in 1..Len(store.messages) :
                  /\ store.messages[j].has_media = 1
                  /\ store.messages[j].is_forwarded = 0 } }
    \ { r.file_id : r \in store.images }

\* after the reset no photo whose Image record exists is downloaded
NoSecondDownload ==
    ( /\ ~IsNone(snap)
      /\ last.op = "process_message"
      /\ InCalls("download", last.calls) )
    => ~image_exists(Val(snap).images, Str(Val(Val(last.message).photo).id))

\* C1 as stated: the replay leaves exactly the Post and Image records of
\* the first run, and downloads no photo whose Image record exists.
C1_ReplaySameStore ==
    /\ ReplayDone => ( messages = Val(snap).messages /\ images = Val(snap).images )
    /\ NoSecondDownload

\* C1: the replay leaves exactly the Post records of the first run, field
\* for field and in the same order; it keeps every Image record of the first
\* run and adds one only for a photo of a collected, non-forwarded post that
\* the first run left without an Image record; and it downloads no photo
\* whose Image record exists.
C1_IdempotentReplay ==
    /\ ReplayDone
        => /\ messages = Val(snap).messages
           /\ Val(snap).images \subseteq images
           /\ \A r \in images \ Val(snap).images : r.file_id \in Unfetched(Val(snap))
    /\ NoSecondDownload

\* the replay went over two stored posts, one of them with its Image record
C1_Witness ==
    /\ ReplayDone
    /\ Len(messages) >= 2
    /\ Val(snap).images # {}
    /\ images = Val(snap).images

\* C6: the failure of a pass leaves the run in progress with no pass open,
\* so that the for loop goes on to the next channel; and a run never ends
\* before process_channel was called and has returned for every channel of
\* its list.
C6_FailureIsolation ==
    /\ ( last.op \in {"process_message", "iter_messages", "pass_completed"} /\ last.raised )
          => ( running /\ IsNone(pass) )
    /\ ( ~running /\ last.op \in {"run_completed", "run_aborted"} )
          => Val(last.data).returned >= Val(last.data).listed

\* the passes of both channels of a run failed, the first of them at its
\* checkpoint write or in its loop, and the run went through its list
C6_Witness ==
    /\ ~running
    /\ last.op = "run_completed"
    /\ Val(last.data).listed = 2
    /\ Val(last.data).returned = 2
    /\ failed_passes = ChannelIds
    /\ Len(messages) > 0

\* C7: when the text of the processed post matches an active exclusion rule,
\* the post is dropped whatever its media: process_message returns nothing,
\* calls nothing on the store or the image handler, and no Post or Image
\* record exists for it.
C7_ExclusionPrecedence ==
    ( /\ last.op = "process_message"
      /\ ~last.raised
      /\ \E i \in 1..Len(exclusion_rules) :
            RuleMatches(Val(last.message).text, exclusion_rules[i]) )
    => /\ ~should_collect_message(Val(last.message), exclusion_rules).collect
       /\ IsNone(last.data)
       /\ last.calls = <<>>
       /\ ~MessageExists(messages, last.channel_id, Val(last.message).id)
       /\ \A r \in images :
             <<r.message_channel_id, r.message_message_id>>
                # <<last.channel_id, Val(last.message).id>>

\* a post with a photo whose text matches a rule was processed and dropped
C7_Witness ==
    /\ last.op = "process_message"
    /\ ~last.raised
    /\ has_photo(Val(last.message))
    /\ should_exclude_message(Val(last.message).text, exclusion_rules)
    /\ IsNone(last.data)
    /\ messages = <<>>

\* the processed post matches no active rule
NoRuleMatches ==
    \A i \in 1..Len(exclusion_rules) :
        ~RuleMatches(Val(last.message).text, exclusion_rules[i])

\* C8: a processed post with no media that matches no rule is collected
\* exactly when its text has at least MIN_TEXT_LENGTH characters, and a
\* processed post with a photo that matches no rule is collected whatever
\* the length of its text, zero included.
C8_MinimumLength ==
    ( last.op = "process_message" /\ ~last.raised /\ NoRuleMatches )
    => LET message == Val(last.message)
           collected == /\ should_collect_message(message, exclusion_rules).collect
                        /\ ~IsNone(last.data)
                        /\ MessageExists(messages, last.channel_id, message.id)
           dropped == /\ ~should_collect_message(message, exclusion_rules).collect
                      /\ IsNone(last.data)
                      /\ ~MessageExists(messages, last.channel_id, message.id)
       IN  /\ message.media = "none"
              => IF Len(message.text) >= MIN_TEXT_LENGTH THEN collected ELSE dropped
           /\ message.media = "photo" => collected

\* a post with no media and a text of exactly the minimum length was collected
C8_Witness ==
    /\ last.op = "process_message"
    /\ ~last.raised
    /\ NoRuleMatches
    /\ Val(last.message).media = "none"
    /\ Len(Val(last.message).text) = MIN_TEXT_LENGTH
    /\ MessageExists(messages, last.channel_id, Val(last.message).id)

\* the processed post passes the filters a post of its text and media passes
PassesFilters ==
    /\ NoRuleMatches
    /\ \/ Val(last.message).media = "photo"
       \/ Len(Val(last.message).text) >= MIN_TEXT_LENGTH

\* the processed post has a Post record with is_forwarded = 1
StoredAsForward ==
    \E i \in 1..Len(messages) :
        /\ RowKey(messages[i]) = <<last.channel_id, Val(last.message).id>>
        /\ messages[i].is_forwarded = 1

\* C11 as stated: every forwarded post that was processed has a Post record
\* with is_forwarded = 1, whatever its text, media and the rules.
C11_ForwardsNeverDropped ==
    ( /\ last.op = "process_message"
      /\ ~last.raised
      /\ ~IsNone(Val(last.message).fwd_from) )
    => StoredAsForward

\* C11: a forwarded post is not dropped for being a forward: it has a Post
\* record, with is_forwarded = 1, exactly when its text matches no active
\* rule and it has a photo or a text of at least MIN_TEXT_LENGTH characters.
C11_ForwardsFilteredAlike ==
    ( /\ last.op = "process_message"
      /\ ~last.raised
      /\ ~IsNone(Val(last.message).fwd_from) )
    => IF PassesFilters
       THEN StoredAsForward /\ ~IsNone(last.data)
       ELSE /\ IsNone(last.data)
            /\ ~MessageExists(messages, last.channel_id, Val(last.message).id)

\* a forward from a user, with a photo and no text, was processed and stored
C11_Witness ==
    /\ last.op = "process_message"
    /\ ~last.raised
    /\ Val(last.message).fwd_from = Some(FwdUser)
    /\ Val(last.message).media = "photo"
    /\ Val(last.message).text = <<>>
    /\ StoredAsForward

\* C12 as stated: a Post record has a fingerprint only if it is no forward,
\* no duplicate and has text; duplicates and forwards have none.
C12_FingerprintPresence ==
    \A i \in 1..Len(messages) :
        LET row == messages[i]
        IN  /\ ~IsNone(row.text_hash)
               => /\ row.is_forwarded = 0
                  /\ row.is_duplicate = 0
                  /\ SourcePost(row).text # <<>>
            /\ ( row.is_duplicate = 1 \/ row.is_forwarded = 1 ) => IsNone(row.text_hash)

\* C12: a Post record has a fingerprint exactly when it is no forward and
\* its post has non-empty text; the fingerprint is that of the post's text,
\* also on a duplicate, whose text is absent; every record with
\* is_forwarded = 1 has no fingerprint.
C12_FingerprintOfText ==
    \A i \in 1..Len(messages) :
        LET row == messages[i]
            text == SourcePost(row).text
        IN  /\ row.is_forwarded = 1 => IsNone(row.text_hash)
            /\ ~IsNone(row.text_hash) <=> ( row.is_forwarded = 0 /\ text # <<>> )
            /\ row.is_duplicate = 1
                 => /\ IsNone(row.message_text)
                    /\ \E j \in 1..Len(messages) :
                          /\ Some(RowKey(messages[j])) = row.duplicate_of
                          /\ messages[j].is_duplicate = 0
                          /\ messages[j].text_hash = row.text_hash
                          /\ messages[j].message_text = Some(text)

\* the store holds an original, a duplicate of it and nothing else
C12_Witness ==
    /\ Len(messages) = 2
    /\ messages[1].is_duplicate = 0
    /\ messages[2].is_duplicate = 1
    /\ messages[2].text_hash = messages[1].text_hash
    /\ ~IsNone(messages[2].text_hash)
    /\ last.op = "run_completed"

\* C13: no step changes or removes a Post record (the rows before the step
\* are a prefix of the rows after it), and no two Post records have the same
\* (channel id, post id), over failed passes, re-runs and replays.
C13_AppendOnly ==
    [][ /\ IsPrefix(messages, messages')
        /\ \A i \in 1..Len(messages'), j \in 1..Len(messages') :
              RowKey(messages'[i]) = RowKey(messages'[j]) => i = j
      ]_vars

\* in a replay a stored post was processed again and process_message built a
\* row that differs from the stored one, which is still in the store
C13_Witness ==
    /\ ~IsNone(snap)
    /\ last.op = "process_message"
    /\ ~IsNone(last.data)
    /\ \E i \in 1..Len(messages) :
          /\ RowKey(messages[i]) = RowKey(Val(last.data))
          /\ messages[i] # Val(last.data)
          /\ messages[i] = Val(snap).messages[i]

\* the posts of channel c the Rule Evaluator collects
Collectable(c) ==
    { i \in 1..Len(feed[c]) : should_collect_message(feed[c][i], exclusion_rules).collect }

\* C14 as stated: when a pass of a channel completes without error, every
\* post of the channel's feed that the Rule Evaluator collects and whose
\* timestamp is at or before the channel's watermark has a Post record,
\* posts that share the watermark's timestamp and posts published after the
\* last checkpoint included.
C14_ProcessedPrefix ==
    [][ CompleteStep
        => LET c == Val(pass).channel_id
           IN  \A i \in Collectable(c) :
                  feed'[c][i].date <= WmTime(last_fetched'[c])
                     => MessageExists(messages', c, feed'[c][i].id)
      ]_vars

\* the timestamps of the posts iter_messages has yielded in the pass
ObservedDates(p) ==
    { feed[p.channel_id][i].date :
        i \in { j \in 1..Len(feed[p.channel_id]) :
                  /\ feed[p.channel_id][j].date > p.offset_date
                  /\ feed[p.channel_id][j].id <= p.cursor } }

\* C15 as stated: a step that completes a pass without error writes the
\* channel's watermark once, to the maximum timestamp of the posts the pass
\* enumerated; no other step changes a watermark.
C15_WrittenToMaxObserved ==
    [][ /\ CompleteStep
           => /\ last'.calls = <<"update_channel_last_fetched">>
              /\ IF ObservedDates(Val(pass)) = {} THEN FALSE
                 ELSE last_fetched' =
                        [last_fetched EXCEPT ![Val(pass).channel_id] =
                            WmDatetime(Max(ObservedDates(Val(pass))))]
        /\ ~CompleteStep => last_fetched' = last_fetched
      ]_vars

\* C15: a step that completes a pass without error writes the channel's
\* watermark once if the pass collected a post, to the maximum timestamp of
\* the posts it collected, and leaves it alone if the pass collected none;
\* it changes no other channel's watermark, and no other step changes a
\* watermark.
C15_WrittenToMaxCollected ==
    [][ /\ CompleteStep
           => IF Val(pass).collected_count > 0
              THEN /\ last'.calls = <<"update_channel_last_fetched">>
                   /\ last_fetched' =
                        [last_fetched EXCEPT ![Val(pass).channel_id] =
                            WmDatetime(Max(Val(pass).collected_dates))]
              ELSE /\ last'.calls = <<>>
                   /\ last_fetched' = last_fetched
        /\ ~CompleteStep => last_fetched' = last_fetched
      ]_vars

\* a pass has completed that enumerated two posts and collected the first:
\* the watermark is before the timestamp of the last post it enumerated
C15_Witness ==
    /\ last.op = "pass_completed"
    /\ ~last.raised
    /\ Val(last.data).processed_count = 2
    /\ Val(last.data).collected_count = 1
    /\ last_fetched[last.channel_id] = WmDatetime(Max(Val(last.data).collected_dates))
    /\ Max(ObservedDates(Val(last.data))) > WmTime(last_fetched[last.channel_id])

\* the step is a start of run() in which something before the for loop failed
FailedStartup ==
    /\ ~running
    /\ last' # last
    /\ last'.op \in {"run_initialized", "run_started", "run_fatal", "run_no_channels"}
    /\ last'.calls # <<"ok">>

\* C16: a start of run() whose configuration validation or store connection
\* fails ends the run with an error: no pass is started, no Post or Image
\* record is written and no watermark changes; and after a fatal start no
\* run is in progress.
C16_StartupFailureFatal ==
    [][ /\ FailedStartup
           => /\ last'.op = "run_fatal"
              /\ last'.raised
              /\ ~running'
              /\ IsNone(pass')
              /\ messages' = messages
              /\ images' = images
              /\ last_fetched' = last_fetched
        /\ last'.op = "run_fatal" => ( ~running' /\ IsNone(pass') )
      ]_vars

\* after a run that stored a post and checkpointed, the next run could not
\* connect to the store: the records and the watermark are as they were
C16_Witness ==
    /\ last.op = "run_fatal"
    /\ last.calls = <<"connect_error">>
    /\ Len(messages) > 0
    /\ \E c \in ChannelIds : last_fetched[c] # WmNull

\* run() has logged "Collection completed successfully", its only report at
\* the end of a run; it logs no list of failed channels, and the counts of a
\* channel are logged only when its pass completes
ReportedSuccessful == last.op = "run_completed"

\* C17 as stated: a run in which the pass of a channel raised an exception
\* is not reported as fully successful.
C17_RunSummary == ReportedSuccessful => failed_passes = {}

\* C18: the Post records of a channel are in the store in the platform's
\* oldest-to-newest order: of two records of a channel the one inserted
\* first has the smaller post id and no later timestamp, over failed passes
\* and the passes that replay them.
C18_InsertionOrder ==
    \A i \in 1..Len(messages), j \in 1..Len(messages) :
        ( i < j /\ messages[i].channel_id = messages[j].channel_id )
        => /\ messages[i].message_id < messages[j].message_id
           /\ messages[i].message_datetime <= messages[j].message_datetime

\* a pass that started from START_DATE has collected two posts of a channel
\* with different timestamps; their records are in the store
C18_Witness ==
    /\ ~IsNone(pass)
    /\ Val(pass).collected_count = 2
    /\ Val(pass).offset_date = START_DATE
    /\ \E i \in 1..Len(messages), j \in 1..Len(messages) :
          /\ i < j
          /\ messages[i].channel_id = Val(pass).channel_id
          /\ messages[j].channel_id = Val(pass).channel_id
          /\ messages[i].message_datetime < messages[j].message_datetime

PhotoCalls == {"image_exists", "download", "insert_image"}

\* C19: in the processing of a post the insert of its Post record comes
\* before every image-existence check, download and Image insert for it,
\* and the record is in the store when they are made; every Image record's
\* owning (channel id, post id) is the key of a Post record.
C19_PersistBeforeAssets ==
    /\ \A r \in images :
          MessageExists(messages, r.message_channel_id, r.message_message_id)
    /\ last.op \in {"process_message", "await"}
          => \A k \in 1..Len(last.calls) :
                last.calls[k] \in PhotoCalls
                   => /\ \E j \in 1..(k - 1) : last.calls[j] = "insert_message"
                      /\ MessageExists(messages, last.channel_id, Val(last.message).id)

\* a post with a photo was processed: its record was inserted, then the
\* photo was checked, downloaded and its Image record inserted
C19_Witness ==
    /\ last.op = "process_message"
    /\ ~last.raised
    /\ InCalls("insert_image", last.calls)
    /\ \E r \in images :
          /\ r.message_channel_id = last.channel_id
          /\ r.message_message_id = Val(last.message).id
    /\ MessageExists(messages, last.channel_id, Val(last.message).id)

\* the step is an interrupt of a pass
InterruptStep == ~IsNone(pass) /\ IsNone(pass') /\ last'.op = "interrupt"

\* the stored posts whose photo should have an Image record and has none
LacksImage(msgs, imgs) ==
    { RowKey(msgs[i]) :
        i \in { j \in 1..Len(msgs) :
                  /\ msgs[j].has_media = 1
                  /\ msgs[j].is_forwarded = 0
                  /\ ~image_exists(imgs, Str(Val(SourcePost(msgs[j]).photo).id)) } }

\* C20 as stated: an interrupt at a suspension point of a pass adds at most
\* one Post record, a whole one, for the post in flight, and changes no
\* other; it leaves the watermark alone or at a timestamp up to which every
\* post of the channel that the pass had to enumerate was processed; and at
\* most one stored post, the one in flight, is without its Image record
\* because of it.
C20_Cancellation ==
    [][ InterruptStep
        => LET p == Val(pass)
               c == p.channel_id
               added == { messages'[i] : i \in (Len(messages) + 1)..Len(messages') }
               lacking == LacksImage(messages', images') \ LacksImage(messages, images)
           IN  /\ IsPrefix(messages, messages')
               /\ Len(messages') <= Len(messages) + 1
               /\ \A row \in added :
                     /\ ~IsNone(last'.message)
                     /\ RowKey(row) = <<c, Val(last'.message).id>>
                     /\ row.message_datetime = Val(last'.message).date
                     /\ row.is_forwarded = 1 <=> ~IsNone(Val(last'.message).fwd_from)
                     /\ row.is_duplicate = 1 <=> ~IsNone(row.duplicate_of)
                     /\ row.is_duplicate = 1 => IsNone(row.message_text)
               /\ \A d \in ChannelIds : d # c => last_fetched'[d] = last_fetched[d]
               /\ \/ last_fetched'[c] = last_fetched[c]
                  \/ \A i \in 1..Len(feed[c]) :
                        ( /\ feed[c][i].date > p.offset_date
                          /\ feed[c][i].date <= WmTime(last_fetched'[c]) )
                        => feed[c][i].id <= p.cursor
               /\ \A key \in lacking :
                     ~IsNone(last'.message) /\ key = <<c, Val(last'.message).id>>
               /\ images \subseteq images'
      ]_vars


\* C21 as stated: when two channel passes interleave at their store
\* operations, no two Post records with the same fingerprint are both stored
\* as non-duplicate originals.
C21_OneOriginalPerFingerprint ==
    \A i, j \in 1..Len(messages) :
        ( /\ i # j
          /\ ~IsNone(messages[i].text_hash)
          /\ messages[i].text_hash = messages[j].text_hash )
        => ~( messages[i].is_duplicate = 0 /\ messages[j].is_duplicate = 0 )


\* the first applicable step of the decision list decides
DecisionList(matches, photo, other_media, long_enough) ==
    IF matches THEN FALSE
    ELSE IF photo THEN TRUE
    ELSE IF other_media THEN long_enough
    ELSE long_enough

\* C22: for every processed post the verdict of should_collect_message is the
\* result of the first applicable step of: a rule matches, drop; a photo,
\* collect; other media, collect iff the text has the minimum length; text
\* only, collect iff the text has the minimum length. Evaluating it changes
\* neither the rules nor, for a drop, the store.
C22_DecisionOrder ==
    [][ ( ProcessStep /\ ~last'.raised )
        => LET message == Val(last'.message)
               decision ==
                   DecisionList(\E i \in 1..Len(exclusion_rules) :
                                    RuleMatches(message.text, exclusion_rules[i]),
                                message.media = "photo",
                                message.media \notin {"none", "photo"},
                                Len(message.text) >= MIN_TEXT_LENGTH)
           IN  /\ should_collect_message(message, exclusion_rules).collect = decision
               /\ (~IsNone(last'.data)) = decision
               /\ exclusion_rules' = exclusion_rules
               /\ rule_rows' = rule_rows
               /\ ~decision => ( messages' = messages /\ images' = images )
      ]_vars

\* a post with non-photo media, a text below the minimum and no matching
\* rule was processed and dropped
C22_Witness ==
    /\ last.op = "process_message"
    /\ ~last.raised
    /\ Val(last.message).media = "document"
    /\ Len(Val(last.message).text) < MIN_TEXT_LENGTH
    /\ ~should_exclude_message(Val(last.message).text, exclusion_rules)
    /\ IsNone(last.data)
    /\ messages = <<>>


\* the rule matches the text in the words of the claim
MatchesAsStated(text, rule) ==
    LET t == IF rule.is_case_sensitive THEN text ELSE Lower(text)
        p == IF rule.is_case_sensitive THEN rule.pattern ELSE Lower(rule.pattern)
    IN  \/ rule.rule_type = "exact" /\ t = p
        \/ rule.rule_type = "contains"
             /\ \E from \in 1..(Len(t) + 1), to \in 0..Len(t) :
                   SubSeq(t, from, to) = p

\* C23: should_exclude_message(text, rules) is true exactly when some rule
\* of the list matches: an exact rule when the text equals the pattern, a
\* contains rule when the pattern is a substring of the text, both
\* lower-cased unless the rule is case-sensitive. The same rules in another
\* order give the same result, and both database modules agree.
C23_ExclusionMatching ==
    probe # None /\ probe.op = "should_exclude_message"
    => /\ probe.result
            = ( \E i \in 1..Len(probe.rules) :
                    MatchesAsStated(probe.message_text, probe.rules[i]) )
       /\ probe.result_reordered = probe.result
       /\ probe.sqlite = probe.result

\* a text was excluded by the second of two rules in one order and by the
\* first in the other, by a case-insensitive contains rule
C23_Witness ==
    /\ probe # None
    /\ probe.op = "should_exclude_message"
    /\ probe.result
    /\ Len(probe.rules) = 2
    /\ probe.reordered # probe.rules
    /\ ~RuleMatches(probe.message_text, probe.rules[1])
    /\ probe.rules[2].rule_type = "contains"
    /\ ~probe.rules[2].is_case_sensitive
    /\ probe.rules[2].pattern # Lower(probe.rules[2].pattern)


\* C24: when a pass completes without error and collected no post (every
\* enumerated post was dropped, or none was enumerated), the completing step
\* makes no call on the channel record and the channel's watermark is the
\* value the pass started from.
C24_EmptyPassKeepsCheckpoint ==
    [][ ( CompleteStep /\ Val(pass).collected_count = 0 )
        => /\ last'.calls = <<>>
           /\ last_fetched' = last_fetched
           /\ last_fetched'[Val(pass).channel_id] = Val(pass).last_fetched
      ]_vars

\* a pass over a channel with a watermark enumerated one post, dropped it
\* and completed
C24_Witness ==
    /\ last.op = "pass_completed"
    /\ ~last.raised
    /\ Val(last.data).processed_count = 1
    /\ Val(last.data).collected_count = 0
    /\ last_fetched[last.channel_id].type = "datetime"
    /\ last_fetched[last.channel_id] = Val(last.data).last_fetched


\* C25: a turn of the loop whose post the Rule Evaluator drops makes no call
\* on the store or the image handler, returns nothing, and leaves the
\* messages table, the images table, the watermarks and the value the
\* watermark will be advanced to as they were.
C25_DroppedLeavesNoTrace ==
    [][ ( /\ ProcessStep
          /\ ~last'.raised
          /\ ~should_collect_message(Val(last'.message), exclusion_rules).collect )
        => /\ last'.calls = <<>>
           /\ IsNone(last'.data)
           /\ messages' = messages
           /\ images' = images
           /\ last_fetched' = last_fetched
           /\ Val(pass').latest_message_time = Val(pass).latest_message_time
           /\ Val(pass').collected_count = Val(pass).collected_count
      ]_vars

\* a post was dropped in a pass that had collected an earlier post
C25_Witness ==
    /\ last.op = "process_message"
    /\ ~last.raised
    /\ ~should_collect_message(Val(last.message), exclusion_rules).collect
    /\ ~IsNone(pass)
    /\ Val(pass).collected_count = 1
    /\ Val(pass).processed_count = 2
    /\ Val(pass).latest_message_time # Some(Val(last.message).date)
    /\ ~MessageExists(messages, last.channel_id, Val(last.message).id)


\* the photo of the post an images row was made for
SourcePhoto(row) == Val(feed[row.message_channel_id][row.message_message_id].photo)

\* C26 as stated: the Image record of a photo whose native format is the
\* pass-through format (WebP) reports the width and the height of the source
\* image, for every source width, widths above the maximum included.
C26_PassThroughVerbatim ==
    \A r \in images :
        ( SourcePhoto(r).format = "webp" /\ KEEP_WEBP )
        => /\ r.width = SourcePhoto(r).width
           /\ r.height = SourcePhoto(r).height

\* C27 as stated: the Image record of a photo that is not pass-through
\* reports the width min(source width, maximum); its height is the source
\* height times maximum / width, truncated, when the source is wider than
\* the maximum, and the source height otherwise; the width is never above the
\* maximum and the height never below 1.
C27_DownscaleBound ==
    \A r \in images :
        ~( SourcePhoto(r).format = "webp" /\ KEEP_WEBP )
        => LET w == SourcePhoto(r).width
               h == SourcePhoto(r).height
           IN  /\ r.width = IF w < MAX_IMAGE_WIDTH THEN w ELSE MAX_IMAGE_WIDTH
               /\ w > MAX_IMAGE_WIDTH => r.height = (h * MAX_IMAGE_WIDTH) \div w
               /\ w <= MAX_IMAGE_WIDTH => ( r.width = w /\ r.height = h )
               /\ r.width <= MAX_IMAGE_WIDTH
               /\ r.height >= 1


\* C28: in every store state reached with channels processed one at a time,
\* a Post record with is_duplicate = 1 has a duplicate target that is the key
\* of another Post record, one with is_duplicate = 0 that is not a forward; a
\* record with is_duplicate = 0 has no duplicate target; no record is both a
\* duplicate and a forward. Replays, in which a stored original matches its
\* own fingerprint, are included.
C28_BackLinksWellFormed ==
    \A i \in 1..Len(messages) :
        LET row == messages[i]
        IN  /\ row.is_duplicate = 1
                => /\ ~IsNone(row.duplicate_of)
                   /\ \E j \in 1..Len(messages) :
                         /\ j # i
                         /\ RowKey(messages[j]) = Val(row.duplicate_of)
                         /\ messages[j].is_duplicate = 0
                         /\ messages[j].is_forwarded = 0
            /\ row.is_duplicate = 0 => IsNone(row.duplicate_of)
            /\ ~( row.is_duplicate = 1 /\ row.is_forwarded = 1 )

\* in a replay a stored original was processed again: find_duplicate returned
\* the original itself, and the store still holds it as an original next to
\* its duplicate
C28_Witness ==
    /\ ~IsNone(snap)
    /\ last.op = "process_message"
    /\ ~IsNone(last.data)
    /\ Val(last.data).is_duplicate = 1
    /\ Val(last.data).duplicate_of = Some(RowKey(Val(last.data)))
    /\ \E i, j \in 1..Len(messages) :
          /\ RowKey(messages[i]) = RowKey(Val(last.data))
          /\ messages[i].is_duplicate = 0
          /\ messages[j].is_duplicate = 1
          /\ messages[j].duplicate_of = Some(RowKey(messages[i]))


\* the channel's watermark in watermarks is a timestamp at or after date
Covers(watermarks, c, date) ==
    watermarks[c].type = "datetime" /\ Val(watermarks[c].value) >= date

CheckpointCovers(c, date) == Covers(last_fetched, c, date)

OwnsImage(row) ==
    \E r \in images : <<r.message_channel_id, r.message_message_id>> = RowKey(row)

\* a stored non-forward post with a photo that has no Image record of its own
\* although the watermark of its channel is at or after its timestamp
Abandoned(row) ==
    /\ row.has_media = 1
    /\ row.is_forwarded = 0
    /\ ~OwnsImage(row)
    /\ CheckpointCovers(row.channel_id, row.message_datetime)

\* C29: when a pass completes without error, the new watermark is at or
\* after the timestamp of every Post record of the channel, the ones whose
\* photo download failed included; from then on such a post is not
\* enumerated again, keeps has_media = 1 and gets no Image record.
C29_NoRetryAfterCheckpoint ==
    [][ /\ CompleteStep
           => \A i \in 1..Len(messages') :
                 messages'[i].channel_id = Val(pass).channel_id
                    => Covers(last_fetched', messages'[i].channel_id,
                              messages'[i].message_datetime)
        /\ \A i \in 1..Len(messages) :
              Abandoned(messages[i])
                 => /\ Abandoned(messages[i])'
                    /\ messages'[i] = messages[i]
                    /\ ~( /\ last' # last
                          /\ last'.op = "process_message"
                          /\ last'.channel_id = messages[i].channel_id
                          /\ Val(last'.message).id = messages[i].message_id )
      ]_vars

\* a later pass of the channel has completed and a post whose download had
\* failed is still without an Image record for its photo
C29_Witness ==
    /\ last.op = "pass_completed"
    /\ ~last.raised
    /\ \E i \in 1..Len(messages) :
          /\ Abandoned(messages[i])
          /\ messages[i].channel_id = last.channel_id
          /\ ~image_exists(images, Str(Val(SourcePost(messages[i]).photo).id))
          /\ Val(last.data).offset_date >= messages[i].message_datetime


\* the rows of the non-forward posts that carry the photo with this file id
Carriers(file_id) ==
    { i \in 1..Len(messages) :
        /\ messages[i].is_forwarded = 0
        /\ messages[i].has_media = 1
        /\ Str(Val(SourcePost(messages[i]).photo).id) = file_id }

\* C30 as stated: there is at most one Image record per file id, and it is
\* owned by the first non-forward collected post that was processed with
\* that photo.
C30_FirstProcessedOwns ==
    /\ \A r1 \in images, r2 \in images : r1.file_id = r2.file_id => r1 = r2
    /\ \A r \in images :
          \E i \in Carriers(r.file_id) :
              /\ RowKey(messages[i]) = <<r.message_channel_id, r.message_message_id>>
              /\ \A j \in Carriers(r.file_id) : i <= j

\* C30: there is at most one Image record per file id; a record is written
\* by a turn of the loop on a non-forward collected post that carries the
\* photo, when no record with the file id exists yet (the first post whose
\* download succeeded and whose insert was executed), and it is owned by
\* that post; no step changes or removes a record; every stored post that
\* carries a photo has has_media = 1, and owns no record of a photo other
\* than its own.
C30_FirstWriterOwns ==
    [][ /\ \A r1 \in images', r2 \in images' : r1.file_id = r2.file_id => r1 = r2
        /\ images \subseteq images'
        /\ \A r \in images' \ images :
              /\ ProcessStep
              /\ InCalls("download", last'.calls)
              /\ InCalls("insert_image", last'.calls)
              /\ ~image_exists(images, r.file_id)
              /\ r.file_id = Str(Val(Val(last'.message).photo).id)
              /\ <<r.message_channel_id, r.message_message_id>>
                    = <<last'.channel_id, Val(last'.message).id>>
              /\ IsNone(Val(last'.message).fwd_from)
              /\ MessageExists(messages', r.message_channel_id, r.message_message_id)
        /\ \A i \in 1..Len(messages') :
              /\ messages'[i].has_media = 1 <=> SourcePost(messages'[i]).media = "photo"
              /\ \A r \in images' :
                    <<r.message_channel_id, r.message_message_id>> = RowKey(messages'[i])
                       => i \in Carriers(r.file_id)'
      ]_vars

\* the Image record of a photo is owned by the second of two non-forward
\* posts that carry it: the download for the first one had failed
C30_Witness ==
    \E r \in images :
        \E i \in Carriers(r.file_id), j \in Carriers(r.file_id) :
            /\ i < j
            /\ RowKey(messages[j]) = <<r.message_channel_id, r.message_message_id>>
            /\ ~OwnsImage(messages[i])

====
